---- MODULE Spec2Model ----
(***************************************************************************)
(* Notification pipeline of zulip-notifications: the shared filter engine, *)
(* the cloud worker's subscription poller (pollAllUsers / pollUser) over   *)
(* its key-value store, and the device-local event-queue client            *)
(* (ZulipClient).  The chat server and the push service are the            *)
(* environment: their answers are chosen nondeterministically.             *)
(***************************************************************************)
EXTENDS Integers, Sequences, FiniteSets, TLC

(* ------------------------------ bounds -------------------------------- *)
\* queues the chat server issues to one account
MaxQueues == 2
\* events the chat server puts into one queue
MaxEvents == 2
\* subscriptions polled concurrently in one batch (40 in the worker)
batchSize == 2
\* length of an event batch answered to the local client
MaxBatch == 3
\* largest event id answered to the local client
MaxId == 3

(* --------------------------- program constants ------------------------ *)
MAX_FAILURES == 5
\* queueId: null
NoQueue == 0
\* lastEventId: -1 (none yet)
NoEvent == -1
\* shouldNotify called without its optional userId
NoUserId == 0
\* rounds of one scheduled invocation
Rounds == 4

Endpoints == {"e1", "e2", "e3"}
\* env.SUBSCRIPTIONS.list() answers the keys in lexicographic order
EndpointOrder == <<"e1", "e2", "e3">>

Max(a, b) == IF a >= b THEN a ELSE b

(* ------------------------- filters.ts (shared) ------------------------ *)
DEFAULT_FILTER_SETTINGS ==
  [ notifyOnMention   |-> TRUE,
    notifyOnDM        |-> TRUE,
    notifyOnOther     |-> FALSE,
    muteSelfMessages  |-> TRUE,
    mutedStreams      |-> <<>>,
    mutedTopics       |-> <<>>,
    quietHoursEnabled |-> FALSE,
    quietHoursStart   |-> "22:00",
    quietHoursEnd     |-> "07:00",
    quietDaysEnabled  |-> FALSE,
    quietDays         |-> {} ]

\* the clock values new Date() is read at: hours, minutes, weekday
Clocks == { [h |-> 23, m |-> 30, day |-> 0], [h |-> 8, m |-> 0, day |-> 3] }

\* String.prototype.toLowerCase on the names used here
toLowerCase(s) ==
  CASE s = "General" -> "general"
    [] s = "Deploy"  -> "deploy"
    [] s = "Lun(ch"  -> "lun(ch"
    [] s = "LUN("    -> "lun("
    [] OTHER         -> s

\* Number() of a text that is no number, and arithmetic on it
NaN == -1

\* s.split(':').map(Number) on the time texts used here; a text without ':'
\* leaves the minutes undefined
SplitHM(s) ==
  CASE s = "22:00" -> <<22, 0>>
    [] s = "07:00" -> <<7, 0>>
    [] s = "09:00" -> <<9, 0>>
    [] s = "17:00" -> <<17, 0>>
    [] OTHER       -> <<NaN, NaN>>

\* h * 60 + m
Minutes(hm) == IF hm[1] = NaN \/ hm[2] = NaN THEN NaN ELSE hm[1] * 60 + hm[2]

\* >, >= and < of numbers: false as soon as one side is NaN
Gt(a, b)  == a # NaN /\ b # NaN /\ a > b
Geq(a, b) == a # NaN /\ b # NaN /\ a >= b
Lt(a, b)  == a # NaN /\ b # NaN /\ a < b

\* mutant: the window test of a window within one day, whatever the window
isQuietHoursNoWrap(settings, now) ==
  IF ~settings.quietHoursEnabled THEN FALSE
  ELSE LET currentMinutes == now.h * 60 + now.m
           startMinutes   == Minutes(SplitHM(settings.quietHoursStart))
           endMinutes     == Minutes(SplitHM(settings.quietHoursEnd))
       IN  Geq(currentMinutes, startMinutes) /\ Lt(currentMinutes, endMinutes)

isQuietHours(settings, now) ==
  IF ~settings.quietHoursEnabled THEN FALSE
  ELSE LET currentMinutes == now.h * 60 + now.m
           startMinutes   == Minutes(SplitHM(settings.quietHoursStart))
           endMinutes     == Minutes(SplitHM(settings.quietHoursEnd))
       IN  IF Gt(startMinutes, endMinutes)
           THEN Geq(currentMinutes, startMinutes) \/ Lt(currentMinutes, endMinutes)
           ELSE Geq(currentMinutes, startMinutes) /\ Lt(currentMinutes, endMinutes)

isQuietDay(settings, now) ==
  IF ~settings.quietDaysEnabled THEN FALSE
  ELSE IF settings.quietDays = {} THEN FALSE
  ELSE now.day \in settings.quietDays

isChannelMuted(settings, streamName) ==
  IF streamName = "" \/ settings.mutedStreams = <<>> THEN FALSE
  ELSE \E i \in 1..Len(settings.mutedStreams) :
         toLowerCase(settings.mutedStreams[i]) = toLowerCase(streamName)

\* a muted-topic pattern: its text, whether new RegExp accepts it, and the
\* (lower-cased) topics the compiled expression matches
RegexTest(pattern, topic) == toLowerCase(topic) \in pattern.matches
\* String.prototype.includes on the texts used here
Contains(text, part) == <<text, part>> \in { <<"lun(ch", "lun(">> }
Includes(topic, pattern)  == Contains(toLowerCase(topic), toLowerCase(pattern.text))

\* isTopicMuted lines 89-93, one pattern: the test, or the fallback in the
\* catch when new RegExp rejects the pattern
patternMutes(pattern, topic) ==
  IF pattern.valid THEN RegexTest(pattern, topic) ELSE Includes(topic, pattern)

\* mutant: the loop over the patterns ends at the first one new RegExp rejects
isTopicMutedStopsAtInvalid(settings, topic) ==
  IF topic = "" \/ settings.mutedTopics = <<>> THEN FALSE
  ELSE \E i \in 1..Len(settings.mutedTopics) :
         /\ patternMutes(settings.mutedTopics[i], topic)
         /\ \A j \in 1..i : settings.mutedTopics[j].valid

isTopicMuted(settings, topic) ==
  IF topic = "" \/ settings.mutedTopics = <<>> THEN FALSE
  ELSE \E i \in 1..Len(settings.mutedTopics) :
         patternMutes(settings.mutedTopics[i], topic)

\* mutant: new RegExp outside a try
compileThrowsWhenInvalid(pattern) == ~pattern.valid

\* isTopicMuted lines 89-93: whether the SyntaxError of new RegExp(pattern)
\* leaves the function; it is caught
compileThrows(pattern) == FALSE

\* whether a call of isTopicMuted throws: a pattern whose error leaves the
\* function is reached, no earlier pattern having returned true
isTopicMutedThrows(settings, topic) ==
  IF topic = "" \/ settings.mutedTopics = <<>> THEN FALSE
  ELSE \E i \in 1..Len(settings.mutedTopics) :
         /\ compileThrows(settings.mutedTopics[i])
         /\ \A j \in 1..(i - 1) : ~patternMutes(settings.mutedTopics[j], topic)

\* mutant: the self-message rule never applies
isSelfMessageNever(settings, msg, userId) == FALSE

\* shouldNotify line 105
isSelfMessage(settings, msg, userId) ==
  settings.muteSelfMessages /\ userId # NoUserId /\ msg.senderId = userId

\* mutant: a direct message is handled like a stream message
isDMNever(msg) == FALSE

\* shouldNotify line 117
isDM(msg) == msg.type = "private"

\* mutant: the wildcard flag does not count as a mention
isMentionWithoutWildcard(msg) == msg.mentioned

\* shouldNotify line 118
isMention(msg) == msg.mentioned \/ msg.wildcardMentioned

\* a call that ends by an exception instead of a result
Thrown == [notify |-> FALSE, reason |-> "SyntaxError"]

shouldNotify(settings, msg, userId, now) ==
  IF isSelfMessage(settings, msg, userId)
    THEN [notify |-> FALSE, reason |-> "self_message"]
  ELSE IF isQuietHours(settings, now)
    THEN [notify |-> FALSE, reason |-> "quiet_hours"]
  ELSE IF isQuietDay(settings, now)
    THEN [notify |-> FALSE, reason |-> "quiet_day"]
  ELSE IF isDM(msg)
    THEN IF settings.notifyOnDM
           THEN [notify |-> TRUE,  reason |-> "dm"]
           ELSE [notify |-> FALSE, reason |-> "dm_disabled"]
  ELSE IF isMention(msg) /\ ~settings.notifyOnMention
    THEN [notify |-> FALSE, reason |-> "mention_disabled"]
  ELSE IF ~isMention(msg) /\ ~settings.notifyOnOther
    THEN [notify |-> FALSE, reason |-> "other_disabled"]
  ELSE IF isChannelMuted(settings, msg.stream)
    THEN [notify |-> FALSE, reason |-> "muted_channel"]
  ELSE IF isTopicMutedThrows(settings, msg.subject)
    THEN Thrown
  ELSE IF isTopicMuted(settings, msg.subject)
    THEN [notify |-> FALSE, reason |-> "muted_topic"]
  ELSE [notify |-> TRUE, reason |-> IF isMention(msg) THEN "mention" ELSE "other"]

messageFromZulipFlags(senderId, type, flags, stream, subject) ==
  [ senderId          |-> senderId,
    type              |-> type,
    stream            |-> stream,
    subject           |-> subject,
    mentioned         |-> "mentioned" \in flags,
    wildcardMentioned |-> "wildcard_mentioned" \in flags ]

(* ------------------------------ state --------------------------------- *)
VARIABLES
  store,      \* env.SUBSCRIPTIONS: endpoint -> Subscription record (a KV namespace)
  srvQueue,   \* chat server, per account: the id of its live event queue (NoQueue: none)
  srvIssued,  \* chat server, per account: queues issued so far
  srvEvents,  \* chat server, per account: the events of the live queue; ids 0, 1, ...
  pc,         \* pollUser(endpoint): where the call stands
  sub,        \* pollUser(endpoint): its local `sub`
  evs,        \* pollUser(endpoint): the events of the answer not yet looped over
  rnd,        \* history of the current pollUser call (what it met, for the properties)
  pushCount,  \* history: sendWebPush calls per event of the queue in use
  handled,    \* history: loop iterations per event of the queue in use
  written,    \* history: the record last written for an endpoint (outlives a delete)
  inflight,   \* history: pollUser calls started and not settled, per endpoint
  schedPc,    \* pollAllUsers: where the invocation stands
  round,      \* pollAllUsers: round
  keys,       \* pollAllUsers: list.keys of the round
  batchAt,    \* pollAllUsers: i (1-based here)
  polled,     \* history: endpoints whose pollUser was started in the current round
  shape,      \* history of the invocation: rounds begun, time spent waiting between them
  quota,      \* environment: queues per account and events per queue the server gives,
              \* and whether the chat server's answers include failures
  upd,        \* handleUpdate, per request in flight: where it stands, its body, its `sub`
  tp,         \* handleTestPush: where the request stands, its endpoint
  resp,       \* history: the last response of the HTTP handlers and what it answered
  updHist,    \* history: what the last successful /update of each request slot met
  pushIn,     \* sendWebPush: the payload, the subscriber, and what the random sources give
  pushOut,    \* sendWebPush: the request it makes, and the padded plaintext encrypted
  pushRecv,   \* the subscriber's browser: what it recovers from the request
  cQueueId,   \* ZulipClient.queueId (NoQueue: null)
  cLastEventId, \* ZulipClient.lastEventId
  cPoll,      \* ZulipClient.getEvents: "idle", or "inflight" while its request is awaited
  cAborted,   \* the abort signal of the request in flight has fired
  cRet,       \* history of the last getEvents call: lastEventId before it, how it ended,
              \* the events it returned, the requests it made
  cDisc,      \* ZulipClient.disconnect: "idle", or "deleting" while its DELETE is awaited
  cDiscRet,   \* history of the last disconnect call: the answer to its DELETE, how it ended
  pollLoopActive,  \* App.pollLoopActive
  connectionState, \* App.state.connectionState
  keepaliveSec,    \* App.state.settings.keepaliveSec
  loopPc,     \* App.startPollLoop: where the loop stands
  loopHist,   \* history of the loop: how its last poll ended and what it did since
  fIn,        \* filter engine: the arguments of a shouldNotify call and the clock
  fResult,    \* filter engine: what the call returned
  fLocal,     \* App.shouldNotify on the same arguments: what the call returned
  client,     \* App.client: the ZulipClient of a connect() call, or NoClient (null)
  queueOf,    \* per ZulipClient object: it holds a queue (queueId is not null)
  abortOf,    \* per ZulipClient object: the loop whose getEvents made its abortController
  conn,       \* connect(), per call: where it stands, the client its pending request is on
  disc,       \* disconnect(): where the call stands, the client it disconnects
  loops,      \* startPollLoop, per loop: where it stands, the client its request is on
  stateError, \* App.state.error
  lastNotifiedMsgId, \* App.lastNotifiedMsgId
  lifeHist    \* history: disconnect() has completed with no connect() call in flight
              \* and connect() was not called since; the catch-ups made, and what
              \* the last one notified about

srvVars   == << srvQueue, srvIssued, srvEvents >>
callVars  == << pc, sub, evs, rnd >>
histVars  == << pushCount, handled >>
schedVars == << schedPc, round, keys, batchAt, polled, shape >>
clientVars == << cQueueId, cLastEventId, cPoll, cAborted, cRet, cDisc, cDiscRet >>
appVars    == << pollLoopActive, connectionState, keepaliveSec, loopPc, loopHist >>
filterVars == << fIn, fResult, fLocal >>
lifeVars == << client, queueOf, abortOf, conn, disc, loops, stateError, lastNotifiedMsgId,
               lifeHist >>
apiVars    == << upd, tp, resp, updHist >>
codecVars  == << pushIn, pushOut, pushRecv >>
workerVars == << store, srvVars, callVars, histVars, written, inflight, schedVars, quota, apiVars,
                 codecVars >>

(* ------------------------- the key-value store ------------------------ *)
KvPut(st, k, v) == [x \in (DOMAIN st) \cup {k} |-> IF x = k THEN v ELSE st[x]]
KvDelete(st, k) == [x \in (DOMAIN st) \ {k} |-> st[x]]
KvList(st)      == SelectSeq(EndpointOrder, LAMBDA k : k \in DOMAIN st)

\* the record handleRegister stores
NewSubscription ==
  [ keys                 |-> "k1",
    encryptedCredentials |-> <<"sealed", "a@x", "key">>,
    filters     |-> DEFAULT_FILTER_SETTINGS,
    queueId     |-> NoQueue,
    lastEventId |-> NoEvent,
    failures    |-> 0,
    createdAt   |-> 1000,
    updatedAt   |-> 1000 ]

(* --------------------------- the chat server -------------------------- *)
\* what the queue of an account can hold: the event's type and its message
MsgMention ==
  [ sender_id |-> 7, type |-> "stream", flags |-> {"mentioned"},
    display_recipient |-> "General", subject |-> "deploy" ]
MsgOther ==
  [ sender_id |-> 7, type |-> "stream", flags |-> {},
    display_recipient |-> "General", subject |-> "deploy" ]
\* the chat user the subscriptions' credentials belong to, and a message that
\* user sent (a stream message mentioning everyone, its sender included)
AccountUserId == 9
MsgSelf ==
  [ sender_id |-> AccountUserId, type |-> "stream", flags |-> {"wildcard_mentioned"},
    display_recipient |-> "General", subject |-> "deploy" ]
Payloads == { [type |-> "message",   message |-> <<MsgMention>>],
              [type |-> "message",   message |-> <<MsgOther>>],
              [type |-> "message",   message |-> <<MsgSelf>>],
              [type |-> "heartbeat", message |-> <<>>],
              [type |-> "presence",  message |-> <<>>] }

\* GET /events?queue_id&last_event_id&dont_block=true, answered 200: the events
\* of the queue whose id is above last_event_id, in id order
EventsAfter(queue, last) ==
  [ i \in 1..(Len(queue) - (last + 1)) |->
      [ id      |-> last + i,
        type    |-> queue[last + 1 + i].type,
        message |-> queue[last + 1 + i].message ] ]

\* the ids of the events of one queue; a queue the server has dropped answers
\* no event any more, so the history is kept for the queue in use
EventIds == 0..(MaxEvents - 1)
NoHistory == [k \in EventIds |-> 0]

\* a message event arrives in the live queue of an account
ServerEvent(e) ==
  /\ srvQueue[e] # NoQueue
  /\ Len(srvEvents[e]) < quota.events
  /\ \E p \in Payloads : srvEvents' = [srvEvents EXCEPT ![e] = Append(@, p)]
  /\ UNCHANGED << clientVars, appVars, filterVars, lifeVars, codecVars, quota, apiVars, written, store, srvQueue, srvIssued, callVars, histVars, inflight, schedVars >>

\* the server garbage-collects the queue of an account (idle queues expire)
ServerExpire(e) ==
  /\ srvQueue[e] # NoQueue
  /\ srvQueue' = [srvQueue EXCEPT ![e] = NoQueue]
  /\ srvEvents' = [srvEvents EXCEPT ![e] = <<>>]
  /\ UNCHANGED << clientVars, appVars, filterVars, lifeVars, codecVars, quota, apiVars, written, store, srvIssued, callVars, histVars, inflight, schedVars >>

(* ------------------------------ pollUser ------------------------------ *)
\* HTTP answers: a status, or "throw" when fetch rejects (transport error)
RegisterAnswers == {"200", "401", "500", "throw"}
EventsAnswers   == {"respond", "401", "500", "throw"}
PushAnswers     == {"201", "404", "410", "500", "throw"}
Ok(status)      == status \in {"200", "201"}
\* the answers the chat server gives in this environment
Given(answers)  == IF quota.faults THEN answers
                                   ELSE { a \in answers : a \in {"200", "respond"} }

\* what a pollUser call has met so far
FreshRound ==
  [ poll |-> "none", f0 |-> 0, pushes |-> 0, gone |-> FALSE, afterGone |-> FALSE,
    hit5 |-> FALSE, threw |-> FALSE ]

\* mutant: the record is written whatever the counter has reached
incrementFailuresKeepsRecord(st, endpoint, s) ==
  LET s2 == [s EXCEPT !.failures = @ + 1]
  IN  [store |-> KvPut(st, endpoint, s2), sub |-> s2]

\* incrementFailures(endpoint, sub, env): the store and the caller's `sub` after it
incrementFailures(st, endpoint, s) ==
  LET s2 == [s EXCEPT !.failures = @ + 1]
  IN  [ store |-> IF s2.failures >= MAX_FAILURES
                    THEN KvDelete(st, endpoint)
                    ELSE KvPut(st, endpoint, s2),
        sub   |-> s2 ]

\* sendPushNotification(sub, msg, env), the push service answering `status`
sendPushNotification(st, endpoint, s, status) ==
  IF status = "throw" THEN [store |-> st, sub |-> s]
  ELSE IF status = "410" \/ status = "404"
    THEN [store |-> KvDelete(st, endpoint), sub |-> s]
  ELSE IF ~Ok(status) THEN incrementFailures(st, endpoint, s)
  ELSE [store |-> st, sub |-> s]

\* mutant: line 879 left out
keepLastEventId(last, id) == last

\* pollUser line 879: sub.lastEventId = Math.max(sub.lastEventId, event.id)
advanceLastEventId(last, id) == Max(last, id)

\* pollUser lines 870-875: whether the event is pushed
wantsPush(filters, event, now) ==
  /\ event.type = "message"
  /\ event.message # <<>>
  /\ LET msg == event.message[1]
         streamName == msg.display_recipient
         filterableMsg ==
           messageFromZulipFlags(msg.sender_id, msg.type, msg.flags, streamName, msg.subject)
     IN  shouldNotify(filters, filterableMsg, NoUserId, now).notify

\* mutant: line 882 left out
finalRecordKeepsFailures(s) == s

\* pollUser lines 882-883: the record written when the loop is over
finalRecord(s) == [s EXCEPT !.failures = 0]

\* mutant: the 400 branch also resets lastEventId
expiredRecordResetsBoth(s) == [s EXCEPT !.queueId = NoQueue, !.lastEventId = NoEvent]

\* mutant: the 400 branch keeps the queue handle
expiredRecordKeepsQueue(s) == s

\* pollUser lines 853-857: the record written on a 400 answer
expiredRecord(s) == [s EXCEPT !.queueId = NoQueue]

\* mutant: no try/catch around the body of pollUser
afterThrowRejects == "rejected"

\* where a pollUser call goes when something inside it throws: its catch
\* (lines 885-887) logs, and the promise resolves
afterThrow == "done"

Bump(n) == IF n < 2 THEN n + 1 ELSE n

\* the call settles: Promise.all sees it, its locals are gone
Settle(e, how, r) ==
  /\ pc' = [pc EXCEPT ![e] = how]
  /\ sub' = [sub EXCEPT ![e] = NewSubscription]
  /\ evs' = [evs EXCEPT ![e] = <<>>]
  /\ rnd' = [rnd EXCEPT ![e] = r]
  /\ inflight' = [inflight EXCEPT ![e] = @ - 1]

\* history: the record the step leaves in the store for e, if any
Remember(e) ==
  written' = IF e \in DOMAIN store' THEN [written EXCEPT ![e] = store'[e]] ELSE written

\* lines 821-826: read the record
PollUserGet(e) ==
  /\ pc[e] = "get"
  /\ IF e \notin DOMAIN store
       THEN Settle(e, "done", [rnd[e] EXCEPT !.poll = "absent"])
       ELSE /\ sub' = [sub EXCEPT ![e] = store[e]]
            /\ pc' = [pc EXCEPT ![e] = IF store[e].queueId = NoQueue
                                         THEN "register" ELSE "events"]
            /\ rnd' = [rnd EXCEPT ![e].f0 = store[e].failures]
            /\ UNCHANGED << evs, inflight >>
  /\ UNCHANGED << clientVars, appVars, filterVars, lifeVars, codecVars, quota, apiVars, written, store, srvVars, histVars, schedVars >>

\* lines 829-845: register a queue
PollUserRegister(e) ==
  /\ pc[e] = "register"
  /\ \E status \in Given(RegisterAnswers) :
       IF status = "throw"
         THEN /\ Settle(e, afterThrow, [rnd[e] EXCEPT !.poll = "regthrew"])
              /\ UNCHANGED << store, srvVars, histVars >>
       ELSE IF ~Ok(status)
         THEN LET r == incrementFailures(store, e, sub[e])
              IN  /\ store' = r.store
                  /\ Settle(e, "done", [rnd[e] EXCEPT !.poll = "regfailed",
                                          !.hit5 = r.sub.failures >= MAX_FAILURES])
                  /\ UNCHANGED << srvVars, histVars >>
       ELSE /\ srvIssued[e] < quota.queues
            /\ LET q  == srvIssued[e] + 1
                   s2 == [sub[e] EXCEPT !.queueId = q, !.lastEventId = NoEvent]
               IN  /\ srvIssued' = [srvIssued EXCEPT ![e] = q]
                   /\ srvQueue' = [srvQueue EXCEPT ![e] = q]
                   /\ srvEvents' = [srvEvents EXCEPT ![e] = <<>>]
                   /\ sub' = [sub EXCEPT ![e] = s2]
                   /\ store' = KvPut(store, e, s2)
                   /\ pc' = [pc EXCEPT ![e] = "events"]
                   /\ pushCount' = [pushCount EXCEPT ![e] = NoHistory]
                   /\ handled' = [handled EXCEPT ![e] = NoHistory]
                   /\ UNCHANGED << evs, rnd, inflight >>
  /\ UNCHANGED << clientVars, appVars, filterVars, lifeVars, codecVars, quota, apiVars, schedVars >>
  /\ Remember(e)

\* lines 847-864: poll the queue without blocking
PollUserEvents(e) ==
  /\ pc[e] = "events"
  /\ \E answer \in Given(EventsAnswers) :
       IF answer = "throw"
         THEN /\ Settle(e, afterThrow, [rnd[e] EXCEPT !.poll = "threw"])
              /\ UNCHANGED store
       ELSE IF answer = "respond" /\ sub[e].queueId # srvQueue[e]
         \* status 400: the server does not know the queue
         THEN /\ store' = KvPut(store, e, expiredRecord(sub[e]))
              /\ Settle(e, "done", [rnd[e] EXCEPT !.poll = "expired"])
       ELSE IF answer = "respond"
         THEN /\ evs' = [evs EXCEPT ![e] = EventsAfter(srvEvents[e], sub[e].lastEventId)]
              /\ pc' = [pc EXCEPT ![e] = "loop"]
              /\ rnd' = [rnd EXCEPT ![e].poll = "ok"]
              /\ UNCHANGED << store, sub, inflight >>
       ELSE LET r == incrementFailures(store, e, sub[e])
            IN  /\ store' = r.store
                /\ Settle(e, "done", [rnd[e] EXCEPT !.poll = "failed",
                                        !.hit5 = r.sub.failures >= MAX_FAILURES])
  /\ UNCHANGED << clientVars, appVars, filterVars, lifeVars, codecVars, quota, apiVars, srvVars, histVars, schedVars >>
  /\ Remember(e)

\* lines 869-880: one iteration of the loop over the answer's events
PollUserLoop(e) ==
  /\ pc[e] = "loop"
  /\ evs[e] # <<>>
  /\ \E now \in Clocks, status \in PushAnswers :
       LET event  == Head(evs[e])
           notify == wantsPush(sub[e].filters, event, now)
           r      == IF notify THEN sendPushNotification(store, e, sub[e], status)
                               ELSE [store |-> store, sub |-> sub[e]]
           key    == event.id
       IN  /\ store' = r.store
           /\ sub' = [sub EXCEPT ![e] =
                        [r.sub EXCEPT !.lastEventId = advanceLastEventId(@, event.id)]]
           /\ evs' = [evs EXCEPT ![e] = Tail(@)]
           /\ handled' = [handled EXCEPT ![e][key] = Bump(@)]
           /\ pushCount' = [pushCount EXCEPT ![e][key] = IF notify THEN Bump(@) ELSE @]
           /\ rnd' = [rnd EXCEPT ![e] =
                        IF ~notify THEN @
                        ELSE [@ EXCEPT !.pushes = @ + 1,
                                       !.afterGone = @ \/ rnd[e].gone,
                                       !.gone = @ \/ status \in {"404", "410"},
                                       !.threw = @ \/ status = "throw",
                                       !.hit5 = @ \/ r.sub.failures >= MAX_FAILURES]]
  /\ UNCHANGED << clientVars, appVars, filterVars, lifeVars, codecVars, quota, apiVars, pc, inflight, srvVars, schedVars >>
  /\ Remember(e)

\* lines 882-884: the loop is over
PollUserFinish(e) ==
  /\ pc[e] = "loop"
  /\ evs[e] = <<>>
  /\ store' = KvPut(store, e, finalRecord(sub[e]))
  /\ Settle(e, "done", rnd[e])
  /\ UNCHANGED << clientVars, appVars, filterVars, lifeVars, codecVars, quota, apiVars, srvVars, histVars, schedVars >>
  /\ Remember(e)

(* ---------------------------- pollAllUsers ---------------------------- *)
\* the wait between two rounds
RoundWaitMs == 15000

NoRounds == [rounds |-> 0, waitedMs |-> 0]

\* list.keys.slice(i, i + batchSize), i counted from 1
Batch == { keys[j] : j \in { k \in 1..Len(keys) : k >= batchAt /\ k < batchAt + batchSize } }

\* scheduled(): the cron trigger starts an invocation; invocations follow one
\* another (the trigger's period leaves room for the four rounds)
Scheduled ==
  /\ schedPc = "idle"
  /\ schedPc' = "list"
  /\ round' = 0
  /\ shape' = NoRounds
  /\ UNCHANGED << clientVars, appVars, filterVars, lifeVars, codecVars, quota, apiVars, written, store, srvVars, callVars, histVars, inflight, keys, batchAt, polled >>

\* line 806: list the keys of the round
ListKeys ==
  /\ schedPc = "list"
  /\ keys' = KvList(store)
  /\ batchAt' = 1
  /\ polled' = {}
  /\ schedPc' = "batch"
  /\ shape' = [shape EXCEPT !.rounds = @ + 1]
  /\ UNCHANGED << clientVars, appVars, filterVars, lifeVars, codecVars, quota, apiVars, written, store, srvVars, callVars, histVars, inflight, round >>

\* mutant: Promise.all of the batch is not awaited
batchNotAwaited == FALSE

\* whether the code waits for the batch before it goes on (line 811: await)
awaitsBatch == TRUE

\* lines 809-811: the next batch starts, every pollUser of it up to its first await
StartBatch ==
  /\ schedPc = "batch"
  /\ batchAt <= Len(keys)
  /\ pc' = [e \in Endpoints |-> IF e \in Batch THEN "get" ELSE pc[e]]
  /\ rnd' = [e \in Endpoints |-> IF e \in Batch THEN FreshRound ELSE rnd[e]]
  /\ inflight' = [e \in Endpoints |-> IF e \in Batch THEN inflight[e] + 1 ELSE inflight[e]]
  /\ polled' = polled \cup Batch
  /\ schedPc' = IF awaitsBatch THEN "wait" ELSE "batch"
  /\ batchAt' = IF awaitsBatch THEN batchAt ELSE batchAt + batchSize
  /\ UNCHANGED << clientVars, appVars, filterVars, lifeVars, codecVars, quota, apiVars, written, store, srvVars, sub, evs, histVars, round, keys, shape >>

\* line 811: Promise.all of the batch settles: fulfilled once every pollUser of
\* the batch has, rejected as soon as one of them rejects (pollAllUsers then throws
\* and the invocation is over)
AwaitBatch ==
  /\ schedPc = "wait"
  /\ \/ \A e \in Batch : pc[e] = "done"
     \/ \E e \in Batch : pc[e] = "rejected"
  /\ IF \E e \in Batch : pc[e] = "rejected"
       THEN schedPc' = "idle" /\ UNCHANGED batchAt
       ELSE schedPc' = "batch" /\ batchAt' = batchAt + batchSize
  /\ pc' = [e \in Endpoints |->
             IF e \in Batch /\ pc[e] \in {"done", "rejected"} THEN "idle" ELSE pc[e]]
  /\ rnd' = [e \in Endpoints |->
              IF e \in Batch /\ pc[e] \in {"done", "rejected"} THEN FreshRound ELSE rnd[e]]
  /\ UNCHANGED << clientVars, appVars, filterVars, lifeVars, codecVars, quota, apiVars, written, store, srvVars, sub, evs, histVars, inflight, round, keys, polled, shape >>

\* mutant: the wait is made after the last round too
waitsAfterEveryRound(r) == TRUE

\* line 814: if (round < 3) await the timer
waitsAfterRound(r) == r < Rounds - 1

\* lines 805 and 814: the round is over; the 15 s wait, then round++ and the
\* loop condition
EndRound ==
  /\ schedPc = "batch"
  /\ batchAt > Len(keys)
  /\ shape' = IF waitsAfterRound(round)
                THEN [shape EXCEPT !.waitedMs = @ + RoundWaitMs] ELSE shape
  /\ IF round < Rounds - 1
       THEN schedPc' = "list" /\ round' = round + 1
       ELSE schedPc' = "idle" /\ UNCHANGED round
  /\ UNCHANGED << clientVars, appVars, filterVars, lifeVars, codecVars, quota, apiVars, written, store, srvVars, callVars, histVars, inflight, keys, batchAt, polled >>

(* --------------------------- HTTP handlers ---------------------------- *)
\* the values Date.now() is read at: by a registration, and by the updates
\* that follow it
RegisterInstant == 1000
UpdateInstant == 2000

\* the `filters` of a request body: the fields it supplies, and their values
NoFilters == [supplied |-> {}, values |-> DEFAULT_FILTER_SETTINGS]
OtherOn ==
  [ supplied |-> {"notifyOnOther"},
    values   |-> [DEFAULT_FILTER_SETTINGS EXCEPT !.notifyOnOther = TRUE] ]
PartialFilters == {NoFilters, OtherOn}

\* { ...base, ...part }
Spread(base, part) ==
  [k \in DOMAIN base |-> IF k \in part.supplied THEN part.values[k] ELSE base[k]]

\* the bodies of POST /register; "" stands for a field that is absent
FullBody(filters) ==
  [ endpoint |-> "e1", keys |-> "k1", zulipServerUrl |-> "https://chat",
    zulipEmail |-> "a@x", zulipApiKey |-> "key", filters |-> filters ]
RegisterBodies ==
  { FullBody(f) : f \in PartialFilters }
    \cup { [FullBody(OtherOn) EXCEPT !.endpoint = ""],
           [FullBody(OtherOn) EXCEPT !.zulipServerUrl = ""],
           [FullBody(OtherOn) EXCEPT !.zulipEmail = ""],
           [FullBody(OtherOn) EXCEPT !.zulipApiKey = ""] }

\* the bodies of POST /update, /unregister and /test-push
UpdateBodies == [endpoint : {"", "e1", "e2"}, filters : PartialFilters]
EndpointBodies == [endpoint : {"", "e1"}]

\* what GET /users/me answers to handleRegister
VerifyAnswers == {"200", "401", "throw"}

\* the requests of POST /update the worker serves at a time
UpdateRequests == {"u1", "u2"}

NoUpdate == [pc |-> "idle", body |-> [endpoint |-> "", filters |-> NoFilters],
             sub |-> NewSubscription]
NoTestPush == [pc |-> "idle", endpoint |-> ""]
NoResponse == [op |-> "none", status |-> 0]
NoUpdateHistory == [done |-> FALSE, supplied |-> NoFilters,
                    duringPoll |-> FALSE, duringUpdate |-> FALSE]

\* json(data, cors, status): the response is recorded
Respond(op, status) == resp' = [op |-> op, status |-> status]

\* encryptCredentials(secret, endpoint, email, apiKey)
encryptCredentials(endpoint, email, apiKey) == <<"sealed", email, apiKey>>

\* mutant: the filters of the request are left out of the record
registerFiltersDefaultsOnly(body) == DEFAULT_FILTER_SETTINGS

\* handleRegister line 715
registerFilters(body) == Spread(DEFAULT_FILTER_SETTINGS, body.filters)

\* handleRegister, the chat server answering `verify` to the credential check:
\* the status it returns and the store it leaves
handleRegister(st, body, verify) ==
  IF body.endpoint = "" \/ body.zulipServerUrl = "" \/ body.zulipEmail = ""
       \/ body.zulipApiKey = ""
    THEN [status |-> 400, store |-> st]
  ELSE IF verify = "401" THEN [status |-> 401, store |-> st]
  ELSE IF verify = "throw" THEN [status |-> 400, store |-> st]
  ELSE LET subscription ==
             [ keys                 |-> body.keys,
               encryptedCredentials |->
                 encryptCredentials(body.endpoint, body.zulipEmail, body.zulipApiKey),
               filters     |-> registerFilters(body),
               queueId     |-> NoQueue,
               lastEventId |-> NoEvent,
               failures    |-> 0,
               createdAt   |-> RegisterInstant,
               updatedAt   |-> RegisterInstant ]
       IN  [status |-> 200, store |-> KvPut(st, body.endpoint, subscription)]

\* POST /register: the whole handler; its awaits read nothing of the store
HandleRegister ==
  /\ \E body \in RegisterBodies, verify \in VerifyAnswers :
       LET r == handleRegister(store, body, verify)
       IN  /\ store' = r.store
           /\ Respond("register", r.status)
           /\ updHist' = IF r.status = 200 THEN [u \in UpdateRequests |-> NoUpdateHistory]
                                           ELSE updHist
  /\ UNCHANGED << clientVars, appVars, filterVars, lifeVars, codecVars, quota, upd, tp, written, srvVars,
                  callVars, histVars, inflight, schedVars >>

\* mutant: the record is written back without the filters of the request
updatedRecordKeepsFilters(s, body, now) == [s EXCEPT !.updatedAt = now]

\* mutant: the update also drops the queue handle
updatedRecordResetsQueue(s, body, now) ==
  [s EXCEPT !.filters = Spread(@, body.filters), !.updatedAt = now, !.queueId = NoQueue]

\* handleUpdate lines 743-745: the record the handler writes back
updatedRecord(s, body, now) ==
  [s EXCEPT !.filters = Spread(@, body.filters), !.updatedAt = now]

\* handleUpdate lines 729-741: the body is checked and the record read
HandleUpdateGet(u) ==
  /\ upd[u].pc = "idle"
  /\ \E body \in UpdateBodies :
       IF body.endpoint = ""
         THEN /\ Respond("update", 400)
              /\ UNCHANGED << upd, updHist >>
       ELSE IF body.endpoint \notin DOMAIN store
         THEN /\ Respond("update", 404)
              /\ UNCHANGED << upd, updHist >>
       ELSE /\ upd' = [upd EXCEPT ![u] =
                         [pc |-> "put", body |-> body, sub |-> store[body.endpoint]]]
            /\ updHist' = [updHist EXCEPT ![u] = NoUpdateHistory]
            /\ UNCHANGED resp
  /\ UNCHANGED << clientVars, appVars, filterVars, lifeVars, codecVars, quota, tp, written, store, srvVars,
                  callVars, histVars, inflight, schedVars >>

\* a pollUser call for the endpoint has read the record and not settled
PollInFlight(e) == pc[e] \in {"register", "events", "loop"}

\* handleUpdate lines 743-748: the record is written back
HandleUpdatePut(u) ==
  /\ upd[u].pc = "put"
  /\ LET body == upd[u].body
     IN  /\ store' = KvPut(store, body.endpoint,
                           updatedRecord(upd[u].sub, body, UpdateInstant))
         /\ Respond("update", 200)
         /\ upd' = [upd EXCEPT ![u] = NoUpdate]
         /\ updHist' = [updHist EXCEPT ![u] =
              [ done         |-> TRUE,
                supplied     |-> body.filters,
                duringPoll   |-> PollInFlight(body.endpoint),
                duringUpdate |-> \E v \in UpdateRequests \ {u} : upd[v].pc = "put" ]]
  /\ UNCHANGED << clientVars, appVars, filterVars, lifeVars, codecVars, quota, tp, written, srvVars,
                  callVars, histVars, inflight, schedVars >>

\* POST /unregister: the whole handler
HandleUnregister ==
  /\ \E body \in EndpointBodies :
       IF body.endpoint = ""
         THEN /\ Respond("unregister", 400)
              /\ UNCHANGED store
         ELSE /\ store' = KvDelete(store, body.endpoint)
              /\ Respond("unregister", 200)
  /\ UNCHANGED << clientVars, appVars, filterVars, lifeVars, codecVars, quota, upd, tp, updHist, written,
                  srvVars, callVars, histVars, inflight, schedVars >>

\* handleTestPush lines 761-779: the body is checked, the record read, the
\* push sent
HandleTestPushGet ==
  /\ tp.pc = "idle"
  /\ \E body \in EndpointBodies :
       IF body.endpoint = ""
         THEN /\ Respond("test-push", 400)
              /\ UNCHANGED tp
       ELSE IF body.endpoint \notin DOMAIN store
         THEN /\ Respond("test-push", 404)
              /\ UNCHANGED tp
       ELSE /\ tp' = [pc |-> "push", endpoint |-> body.endpoint]
            /\ UNCHANGED resp
  /\ UNCHANGED << clientVars, appVars, filterVars, lifeVars, codecVars, quota, upd, updHist, written, store,
                  srvVars, callVars, histVars, inflight, schedVars >>

\* mutant: only 410 counts as gone
pushGoneOnly410(status) == status = "410"

\* handleTestPush line 786: the push service says the subscription is gone
pushGone(status) == status = "410" \/ status = "404"

\* handleTestPush lines 779-801, the push service answering `status` ("throw":
\* the send threw): the status it returns and the store it leaves
testPushOutcome(st, endpoint, status) ==
  IF status = "throw" THEN [status |-> 500, store |-> st]
  ELSE IF pushGone(status) THEN [status |-> 410, store |-> KvDelete(st, endpoint)]
  ELSE IF ~Ok(status) THEN [status |-> 502, store |-> st]
  ELSE [status |-> 200, store |-> st]

\* handleTestPush lines 779-801: the push service has answered, or the send threw
HandleTestPushAnswer ==
  /\ tp.pc = "push"
  /\ \E status \in PushAnswers :
       LET r == testPushOutcome(store, tp.endpoint, status)
       IN  store' = r.store /\ Respond("test-push", r.status)
  /\ tp' = NoTestPush
  /\ UNCHANGED << clientVars, appVars, filterVars, lifeVars, codecVars, quota, upd, updHist, written,
                  srvVars, callVars, histVars, inflight, schedVars >>

(* ---------------------------- web-push.ts ----------------------------- *)
\* the record size the padded plaintext is held under
RecordCeiling == 4078
\* the AES-GCM authentication tag, in bytes
TagBytes == 16

\* the lengths, in bytes, of the payloads sendWebPush is given
PayloadLengths == {0, 1, 100, 4062, 4076, 4077, 4078, 4079}
\* Math.round(Math.random() * 16)
PaddingDraws == 0..16
\* the subscribers' key pairs, and what crypto.getRandomValues gives as salt
Subscribers == {"A", "B"}
Salts == {"s1", "s2"}

Min(a, b) == IF a <= b THEN a ELSE b

\* encoder.encode(payload): a JSON text of n bytes
PayloadBytes(n) ==
  [i \in 1..n |-> IF i = 1 THEN 123 ELSE IF i = n THEN 125 ELSE 97 + (i % 26)]

\* base64url text of a byte string, and back
b64url(data) == [b64url |-> data]
b64urlDecode(str) == str.b64url

\* a P-256 key pair
PublicKey(k)  == <<"pub", k>>
PrivateKey(k) == <<"priv", k>>
\* the subscription's fields: keys.p256dh, keys.auth
P256dh(k) == b64url(PublicKey(k))
Auth(k) == b64url(<<"auth", k>>)

\* crypto.subtle.deriveBits, ECDH: the same bits from either side
deriveBitsECDH(private, public) == {private[2], public[2]}
\* crypto.subtle.deriveBits, HKDF with SHA-256
deriveBitsHKDF(salt, key, info) == <<"hkdf", salt, key, info>>
\* crypto.subtle.encrypt, AES-GCM: the ciphertext carries the tag
encryptAESGCM(key, iv, data) ==
  [key |-> key, iv |-> iv, sealed |-> data, byteLength |-> Len(data) + TagBytes]

\* the key and nonce of a message, from the PRK chain (lines 118-174)
MessageKeys(authSecret, sharedSecretBits, clientPublic, localPublic, salt) ==
  LET prk     == deriveBitsHKDF(authSecret, sharedSecretBits, "Content-Encoding: auth")
      context == <<"P-256", clientPublic, localPublic>>
  IN  [ nonce |-> deriveBitsHKDF(salt, prk, <<"Content-Encoding: nonce", context>>),
        cek   |-> deriveBitsHKDF(salt, prk, <<"Content-Encoding: aesgcm", context>>) ]

\* DataView.setUint16(0, value): the two bytes written, big-endian
Uint16Bytes(value) == << (value % 65536) \div 256, (value % 65536) % 256 >>

\* mutant: the padding is not clamped to the record size
paddingSizeUnclamped(len, draw) == draw

\* line 177: the number of padding bytes
paddingSize(len, draw) == Min(draw, RecordCeiling - len - 2)

\* lines 176-180: the padded plaintext; threw: Uint8Array.set raised RangeError
\* for an offset below 0
padPayload(payloadBytes, draw) ==
  LET len    == Len(payloadBytes)
      pad    == paddingSize(len, draw)
      size   == 2 + pad + len
      field  == Uint16Bytes(pad)
      offset == 2 + pad
  IN  IF offset < 0
        THEN [threw |-> TRUE, paddingSize |-> pad, padded |-> <<>>]
        ELSE [ threw       |-> FALSE,
               paddingSize |-> pad,
               padded      |-> [i \in 1..size |->
                                 IF i > offset THEN payloadBytes[i - offset]
                                 ELSE IF i <= 2 THEN field[i]
                                 ELSE 0] ]

\* encryptPayload(payload, clientP256dh, clientAuth), the ephemeral key pair
\* being localKey and the random sources giving salt and draw
encryptPayload(payloadBytes, clientP256dh, clientAuth, localKey, salt, draw) ==
  LET authSecret   == b64urlDecode(clientAuth)
      clientPublic == b64urlDecode(clientP256dh)
      shared       == deriveBitsECDH(PrivateKey(localKey), clientPublic)
      derived      == MessageKeys(authSecret, shared, clientPublic, PublicKey(localKey), salt)
      p            == padPayload(payloadBytes, draw)
  IN  IF p.threw
        THEN [threw |-> TRUE, paddingSize |-> p.paddingSize, padded |-> <<>>]
        ELSE [ threw          |-> FALSE,
               paddingSize    |-> p.paddingSize,
               padded         |-> p.padded,
               body           |-> encryptAESGCM(derived.cek, derived.nonce, p.padded),
               salt           |-> b64url(salt),
               localPublicKey |-> b64url(PublicKey(localKey)) ]

NoPushIn == [len |-> 0, draw |-> 0, subscriber |-> "A", salt |-> "s1"]
NoPushOut == [state |-> "none"]
NoPushRecv == [state |-> "none"]

\* sendWebPush lines 210-225: the payload is encrypted and the request made
SendWebPush ==
  /\ pushOut.state = "none"
  /\ LET r == encryptPayload(PayloadBytes(pushIn.len), P256dh(pushIn.subscriber),
                             Auth(pushIn.subscriber), "local", pushIn.salt, pushIn.draw)
     IN  pushOut' =
           IF r.threw
             THEN [state |-> "threw", paddingSize |-> r.paddingSize]
             ELSE [ state       |-> "sent",
                    paddingSize |-> r.paddingSize,
                    padded      |-> r.padded,
                    encryption  |-> <<"salt=", r.salt>>,
                    cryptoKey   |-> <<"dh=", r.localPublicKey>>,
                    body        |-> r.body ]
  /\ UNCHANGED << pushIn, pushRecv, store, srvVars, callVars, histVars, written, inflight,
                  schedVars, quota, apiVars, clientVars, appVars, filterVars, lifeVars >>

\* the receiving side of the aesgcm coding: the subscriber's browser derives the
\* keys from its private key, its auth secret and the two headers, decrypts,
\* reads the padding length and drops the padding
decryptRecord(request, subscriber) ==
  LET salt        == b64urlDecode(request.encryption[2])
      localPublic == b64urlDecode(request.cryptoKey[2])
      shared      == deriveBitsECDH(PrivateKey(subscriber), localPublic)
      derived     == MessageKeys(b64urlDecode(Auth(subscriber)), shared,
                                 PublicKey(subscriber), localPublic, salt)
      plain       == request.body.sealed
      pad         == plain[1] * 256 + plain[2]
  IN  IF request.body.key # derived.cek \/ request.body.iv # derived.nonce
        THEN [state |-> "failed", why |-> "authentication"]
      ELSE IF Len(plain) < 2 \/ 2 + pad > Len(plain)
        THEN [state |-> "failed", why |-> "padding length"]
      ELSE IF \E i \in 3..(2 + pad) : plain[i] # 0
        THEN [state |-> "failed", why |-> "padding bytes"]
      ELSE [state |-> "recovered", payload |-> SubSeq(plain, 3 + pad, Len(plain))]

\* the push service hands the request to the subscriber's browser
BrowserReceive ==
  /\ pushOut.state = "sent"
  /\ pushRecv.state = "none"
  /\ pushRecv' = decryptRecord(pushOut, pushIn.subscriber)
  /\ UNCHANGED << pushIn, pushOut, store, srvVars, callVars, histVars, written, inflight,
                  schedVars, quota, apiVars, clientVars, appVars, filterVars, lifeVars >>

\* no push is being sent
InitCodec ==
  /\ pushIn = NoPushIn
  /\ pushOut = NoPushOut
  /\ pushRecv = NoPushRecv

\* a call of sendWebPush: any payload length, subscriber, salt and padding draw
InitCodecCall ==
  /\ pushIn \in [len : PayloadLengths, draw : PaddingDraws, subscriber : Subscribers,
                 salt : Salts]
  /\ pushOut = NoPushOut
  /\ pushRecv = NoPushRecv

(* ---------------------------- ZulipClient ----------------------------- *)
\* AnyZulipEvent (types.ts): message events, heartbeats, and events of any
\* other type
EventTypes == {"message", "heartbeat", "presence"}

\* event batches the chat server may answer to a poll at `last`: events of
\* distinct ids above `last`, in any order
RECURSIVE SeqsOver(_, _)
SeqsOver(ids, n) ==
  IF n = 0 THEN { << >> }
  ELSE LET shorter == SeqsOver(ids, n - 1)
       IN  shorter \cup
           { Append(b, [id |-> i, type |-> t]) :
               b \in { x \in shorter : Len(x) = n - 1 }, i \in ids, t \in EventTypes }

Distinct(b) == \A i, j \in 1..Len(b) : i # j => b[i].id # b[j].id
BatchesAfter(last) == { b \in SeqsOver((last + 1)..MaxId, MaxBatch) : Distinct(b) }

RECURSIVE MaxIdOf(_)
MaxIdOf(b) == IF Len(b) = 1 THEN b[1].id ELSE Max(b[1].id, MaxIdOf(Tail(b)))

\* getEvents lines 120-123: lastEventId after a batch
lastEventIdAfter(last, events) ==
  IF Len(events) > 0 THEN events[Len(events)].id ELSE last

\* what request() throws: the Error message for a non-2xx answer carries the
\* status and the body (lines 57-61); fetch rejects with its own error
ErrorOf(answer) ==
  CASE answer = "400"   -> "Zulip API error 400: BAD_EVENT_QUEUE_ID"
    [] answer = "500"   -> "Zulip API error 500"
    [] answer = "throw" -> "Failed to fetch"
    [] OTHER            -> ""

\* answers of GET /events to the client; "400" is the queue-expired answer,
\* whose body carries the code BAD_EVENT_QUEUE_ID
PollAnswers == {"200", "400", "500", "throw"}
\* answers of DELETE /events
DeleteAnswers == {"200", "400", "throw"}
\* getEvents(timeoutMs = 30000)
DefaultTimeoutMs == 30000

NoCall ==
  [ prev |-> NoEvent, prevQueue |-> NoQueue, outcome |-> "none", events |-> << >>,
    error |-> "", requests |-> 0, timeoutMs |-> 0, abortedBy |-> "no" ]

NoDisconnect == [answer |-> "none", outcome |-> "none", seq |-> 0]

\* mutant: getEvents sends its request again when it failed
retriesOnErrorAlways == TRUE

\* getEvents lines 126-134: the catch rethrows, no second request
retriesOnError == FALSE

\* mutant: disconnect lets the failure of its DELETE through
deleteErrorsRaised == FALSE

\* disconnect lines 147-151: the DELETE sits in a try with an empty catch
disconnectIgnoresErrors == TRUE

\* registerQueue (lines 76-91), for one answer of POST /register
registerQueue(status) ==
  IF Ok(status)
    THEN \E q \in 1..MaxQueues, last \in {NoEvent, 0} :
           /\ cQueueId' = q
           /\ cLastEventId' = last
    ELSE UNCHANGED << cQueueId, cLastEventId >>

\* getEvents up to its await (lines 94-116)
getEventsStart(timeoutMs) ==
  /\ cPoll = "idle"
  /\ IF cQueueId = NoQueue
       THEN /\ cRet' = [NoCall EXCEPT !.prev = cLastEventId, !.outcome = "error",
                                      !.error = "No queue registered",
                                      !.timeoutMs = timeoutMs]
            /\ UNCHANGED << cPoll, cAborted >>
       ELSE /\ cPoll' = "inflight"
            /\ cAborted' = "no"
            /\ cRet' = [NoCall EXCEPT !.prev = cLastEventId, !.prevQueue = cQueueId,
                                      !.requests = 1, !.timeoutMs = timeoutMs]
  /\ UNCHANGED << cQueueId, cLastEventId >>

\* abortCurrentPoll (lines 138-140)
abortCurrentPoll ==
  IF cPoll = "inflight" /\ cAborted = "no"
    THEN cAborted' = "abortCurrentPoll"
    ELSE UNCHANGED cAborted

\* getEvents from its await on (lines 118-134)
getEventsAnswer ==
  /\ cPoll = "inflight"
  /\ IF cAborted # "no"
       THEN /\ cPoll' = "idle"
            /\ cRet' = [cRet EXCEPT !.outcome = "abort", !.abortedBy = cAborted]
            /\ UNCHANGED cLastEventId
       ELSE \E answer \in Given(PollAnswers) :
              IF Ok(answer)
                THEN \E b \in BatchesAfter(cLastEventId) :
                       /\ cPoll' = "idle"
                       /\ cLastEventId' = lastEventIdAfter(cLastEventId, b)
                       /\ cRet' = [cRet EXCEPT !.outcome = "events", !.events = b]
              ELSE IF retriesOnError /\ cRet.requests < 2
                THEN /\ cRet' = [cRet EXCEPT !.requests = @ + 1]
                     /\ UNCHANGED << cPoll, cLastEventId >>
              ELSE /\ cPoll' = "idle"
                   /\ cRet' = [cRet EXCEPT !.outcome = "error", !.error = ErrorOf(answer)]
                   /\ UNCHANGED cLastEventId
  /\ UNCHANGED << cQueueId, cAborted >>

ClientRegisterQueue ==
  /\ cPoll = "idle"
  /\ \E status \in RegisterAnswers : registerQueue(status)
  /\ UNCHANGED << cPoll, cAborted, cRet, cDisc, cDiscRet, workerVars, appVars, filterVars, lifeVars >>

ClientGetEventsStart ==
  /\ getEventsStart(DefaultTimeoutMs)
  /\ UNCHANGED << cDisc, cDiscRet, workerVars, appVars, filterVars, lifeVars >>

ClientAbortCurrentPoll ==
  /\ cPoll = "inflight"
  /\ abortCurrentPoll
  /\ UNCHANGED << cQueueId, cLastEventId, cPoll, cRet, cDisc, cDiscRet,
                  workerVars, appVars, filterVars, lifeVars >>

\* getEvents line 103: the timer set for timeoutMs + 5000 fires
ClientPollTimer ==
  /\ cPoll = "inflight"
  /\ cAborted = "no"
  /\ cAborted' = "timer"
  /\ UNCHANGED << cQueueId, cLastEventId, cPoll, cRet, cDisc, cDiscRet,
                  workerVars, appVars, filterVars, lifeVars >>

ClientGetEventsAnswer ==
  /\ getEventsAnswer
  /\ UNCHANGED << cDisc, cDiscRet, workerVars, appVars, filterVars, lifeVars >>

\* disconnect up to its await (lines 143-148), or to its end when there is no queue
ClientDisconnect ==
  /\ cDisc = "idle"
  /\ cAborted' = IF cPoll = "inflight" /\ cAborted = "no" THEN "disconnect" ELSE cAborted
  /\ IF cQueueId # NoQueue
       THEN /\ cDisc' = "deleting"
            /\ cDiscRet' = [cDiscRet EXCEPT !.answer = "none", !.outcome = "none"]
            /\ UNCHANGED << cQueueId, cLastEventId >>
       ELSE /\ cLastEventId' = NoEvent
            /\ cDiscRet' = [answer |-> "nodelete", outcome |-> "returned",
                            seq |-> 1 - cDiscRet.seq]
            /\ UNCHANGED << cQueueId, cDisc >>
  /\ UNCHANGED << cPoll, cRet, workerVars, appVars, filterVars, lifeVars >>

\* disconnect from its await on (lines 148-155)
ClientDisconnectAnswer ==
  /\ cDisc = "deleting"
  /\ cDisc' = "idle"
  /\ \E answer \in DeleteAnswers :
       IF Ok(answer) \/ disconnectIgnoresErrors
         THEN /\ cQueueId' = NoQueue
              /\ cLastEventId' = NoEvent
              /\ cDiscRet' = [answer |-> answer, outcome |-> "returned",
                              seq |-> 1 - cDiscRet.seq]
         ELSE /\ cDiscRet' = [answer |-> answer, outcome |-> "raised",
                              seq |-> 1 - cDiscRet.seq]
              /\ UNCHANGED << cQueueId, cLastEventId >>
  /\ UNCHANGED << cPoll, cAborted, cRet, workerVars, appVars, filterVars, lifeVars >>

\* isConnected (lines 159-161)
isConnected == cQueueId # NoQueue

InitClient ==
  /\ cQueueId = NoQueue
  /\ cLastEventId = NoEvent
  /\ cPoll = "idle"
  /\ cAborted = "no"
  /\ cRet = NoCall
  /\ cDisc = "idle"
  /\ cDiscRet = NoDisconnect

NextClient ==
  \/ ClientRegisterQueue
  \/ ClientGetEventsStart
  \/ ClientAbortCurrentPoll
  \/ ClientPollTimer
  \/ ClientGetEventsAnswer
  \/ ClientDisconnect
  \/ ClientDisconnectAnswer

(* ---------------------- calls of the filter engine --------------------- *)
\* muted-topic patterns: one new RegExp compiles, one it rejects
PatternDeploy ==
  [ text |-> "^dep", valid |-> TRUE, matches |-> {"deploy"} ]
PatternBroken ==
  [ text |-> "LUN(", valid |-> FALSE, matches |-> {} ]

\* quiet-hours windows: over midnight, within a day, and a start that is no time
QuietWindows == { <<"22:00", "07:00">>, <<"09:00", "17:00">>, <<"", "07:00">> }

FilterSettingsChoices ==
  { [ notifyOnMention   |-> onMention,
      notifyOnDM        |-> onDM,
      notifyOnOther     |-> onOther,
      muteSelfMessages  |-> muteSelf,
      mutedStreams      |-> streams,
      mutedTopics       |-> topics,
      quietHoursEnabled |-> hours.enabled,
      quietHoursStart   |-> hours.window[1],
      quietHoursEnd     |-> hours.window[2],
      quietDaysEnabled  |-> days.enabled,
      quietDays         |-> days.days ] :
      onMention \in BOOLEAN, onDM \in BOOLEAN, onOther \in BOOLEAN, muteSelf \in BOOLEAN,
      streams \in { <<>>, <<"general">> },
      topics \in { <<>>, <<PatternBroken, PatternDeploy>> },
      hours \in { [enabled |-> FALSE, window |-> <<"22:00", "07:00">>] }
                  \cup { [enabled |-> TRUE, window |-> w] : w \in QuietWindows },
      days \in { [enabled |-> FALSE, days |-> {0}], [enabled |-> TRUE, days |-> {0}] } }

FilterMessages ==
  { [ senderId |-> 1, type |-> type, stream |-> stream, subject |-> subject,
      mentioned |-> flags[1], wildcardMentioned |-> flags[2] ] :
      type \in {"private", "stream"},
      stream \in {"General", "Random"},
      subject \in {"Deploy", "Lun(ch", "standup"},
      flags \in { <<FALSE, FALSE>>, <<TRUE, FALSE>>, <<FALSE, TRUE>> } }

\* the caller's user id: none given, the sender's, somebody else's
FilterUserIds == {NoUserId, 1, 2}

\* clock values of the calls
FilterClocks ==
  { [h |-> 23, m |-> 30, day |-> 0], [h |-> 6,  m |-> 0, day |-> 3],
    [h |-> 8,  m |-> 0,  day |-> 3], [h |-> 12, m |-> 0, day |-> 0],
    [h |-> 22, m |-> 0,  day |-> 3], [h |-> 17, m |-> 0, day |-> 3] }

NoResult == [notify |-> FALSE, reason |-> "none"]

\* one call of shouldNotify
FilterDecide ==
  /\ fResult = NoResult
  /\ fResult' = shouldNotify(fIn.settings, fIn.msg, fIn.userId, fIn.now)
  /\ UNCHANGED << fIn, fLocal, workerVars, clientVars, appVars, lifeVars >>

\* App.isQuietHours (app.ts): the settings and the clock of the device
AppIsQuietHours(settings, now) ==
  IF ~settings.quietHoursEnabled THEN FALSE
  ELSE LET currentMinutes == now.h * 60 + now.m
           startMinutes   == Minutes(SplitHM(settings.quietHoursStart))
           endMinutes     == Minutes(SplitHM(settings.quietHoursEnd))
       IN  IF Gt(startMinutes, endMinutes)
           THEN Geq(currentMinutes, startMinutes) \/ Lt(currentMinutes, endMinutes)
           ELSE Geq(currentMinutes, startMinutes) /\ Lt(currentMinutes, endMinutes)

\* App.shouldNotify(msg, flags) (app.ts), state.settings being `settings` and
\* state.userId `userId`; the message is given by the fields of the event:
\* sender_id, type, display_recipient, subject, and its flags. A userId of
\* null equals no sender_id.
AppShouldNotify(settings, msg, userId, now) ==
  LET isDirect   == msg.type = "private"
      mention    == msg.mentioned \/ msg.wildcardMentioned
      streamName == msg.stream
  IN  IF settings.muteSelfMessages /\ userId # NoUserId /\ msg.senderId = userId THEN FALSE
      ELSE IF AppIsQuietHours(settings, now) THEN FALSE
      ELSE IF isDirect THEN settings.notifyOnDM
      ELSE IF mention /\ ~settings.notifyOnMention THEN FALSE
      ELSE IF ~mention /\ ~settings.notifyOnOther THEN FALSE
      ELSE IF /\ streamName # "" /\ Len(settings.mutedStreams) > 0
              /\ \E i \in 1..Len(settings.mutedStreams) :
                    toLowerCase(settings.mutedStreams[i]) = toLowerCase(streamName)
        THEN FALSE
      ELSE IF /\ msg.subject # "" /\ Len(settings.mutedTopics) > 0
              /\ \E i \in 1..Len(settings.mutedTopics) :
                    LET pattern == settings.mutedTopics[i]
                    IN  IF pattern.valid
                          THEN RegexTest(pattern, msg.subject)
                          ELSE Contains(toLowerCase(msg.subject), toLowerCase(pattern.text))
        THEN FALSE
      ELSE TRUE

NoLocalResult == [state |-> "none", notify |-> FALSE]

\* the device decides on a message of its event queue
AppDecide ==
  /\ fLocal = NoLocalResult
  /\ fLocal' = [state |-> "returned",
                notify |-> AppShouldNotify(fIn.settings, fIn.msg, fIn.userId, fIn.now)]
  /\ UNCHANGED << fIn, fResult, workerVars, clientVars, appVars, lifeVars >>

\* no call of the filter engine under way
InitFilter ==
  /\ fIn = [ settings |-> DEFAULT_FILTER_SETTINGS,
             msg |-> CHOOSE m \in FilterMessages : TRUE,
             userId |-> NoUserId,
             now |-> CHOOSE c \in FilterClocks : TRUE ]
  /\ fResult = NoResult
  /\ fLocal = NoLocalResult

\* a call with any arguments at any clock value
InitFilterCall ==
  /\ fIn \in [ settings : FilterSettingsChoices, msg : FilterMessages,
               userId : FilterUserIds, now : FilterClocks ]
  /\ fResult = NoResult
  /\ fLocal = NoLocalResult

(* -------------------- App: the device-local poll loop ------------------ *)
\* values the user gives keepaliveSec; 90 is the default setting
KeepaliveChoices == {30, 90}
\* the wait after a poll error
BackoffMs == 2000

\* startPollLoop line 287: err.message.includes('BAD_EVENT_QUEUE_ID')
IsExpiry(message) == message = "Zulip API error 400: BAD_EVENT_QUEUE_ID"

\* mutant: the loop computes its timeout once, before the first poll
stalePollTimeoutMs(keepalive, previous) ==
  IF previous = 0 THEN keepalive * 1000 ELSE previous

\* startPollLoop line 281: the timeout of a poll, read from the settings at
\* every turn of the loop
pollTimeoutMs(keepalive, previous) == keepalive * 1000

\* mutant: the loop backs off after every error
afterPollErrorAlwaysBackoff(message) == "backoff"

\* startPollLoop lines 285-306: where the loop goes when getEvents rejects
afterPollError(message) == IF IsExpiry(message) THEN "reregister" ELSE "backoff"

NoLoopHistory ==
  [ last |-> "none", waitedMs |-> 0, reregistered |-> FALSE,
    timeoutMs |-> 0, before |-> 0, notified |-> {} ]

\* DEFAULT_SETTINGS (types.ts), the fields App.shouldNotify reads
DEFAULT_SETTINGS ==
  [ notifyOnMention   |-> TRUE,
    notifyOnDM        |-> TRUE,
    notifyOnOther     |-> TRUE,
    muteSelfMessages  |-> TRUE,
    mutedStreams      |-> <<>>,
    mutedTopics       |-> <<>>,
    quietHoursEnabled |-> FALSE,
    quietHoursStart   |-> "22:00",
    quietHoursEnd     |-> "07:00" ]

\* the message a message event of the device's queue carries: somebody else
\* mentions the user in a stream
LocalMessage ==
  [ senderId |-> 7, type |-> "stream", stream |-> "General", subject |-> "deploy",
    mentioned |-> TRUE, wildcardMentioned |-> FALSE ]

\* mutant: processEvents hands every event to handleMessage
handlesEveryEvent(event) == TRUE

\* processEvents lines 316-322: the events handed to handleMessage
handlesEvent(event) == event.type = "message"

\* processEvents (lines 313-324): the ids of the events a notification is shown
\* for; handleMessage (lines 474-484) shows one when App.shouldNotify allows
processEvents(events, settings, userId, now) ==
  { events[i].id : i \in { j \in 1..Len(events) :
                              /\ handlesEvent(events[j])
                              /\ AppShouldNotify(settings, LocalMessage, userId, now) } }

\* startPollLoop lines 271-277
AppStartPollLoop ==
  /\ loopPc = "off"
  /\ ~pollLoopActive
  /\ pollLoopActive' = TRUE
  /\ loopPc' = "top"
  /\ UNCHANGED << connectionState, keepaliveSec, loopHist, clientVars, workerVars, filterVars, lifeVars >>

\* startPollLoop lines 279-284: the loop condition, and getEvents up to its await
AppLoopPoll ==
  /\ loopPc = "top"
  /\ IF pollLoopActive /\ isConnected
       THEN LET timeoutMs == pollTimeoutMs(keepaliveSec, loopHist.timeoutMs)
            IN  /\ getEventsStart(timeoutMs)
                /\ loopPc' = "polling"
                /\ loopHist' = [loopHist EXCEPT !.timeoutMs = timeoutMs,
                                                !.before = loopHist.timeoutMs]
       ELSE /\ loopPc' = "ended"
            /\ UNCHANGED << loopHist, cQueueId, cLastEventId, cPoll, cAborted, cRet >>
  /\ UNCHANGED << pollLoopActive, connectionState, keepaliveSec, cDisc, cDiscRet,
                  workerVars, filterVars, lifeVars >>

\* startPollLoop lines 284-306: getEvents from its await on, then processEvents
\* or the catch; on queue expiry registerQueue is called, up to its await
AppLoopAnswer ==
  /\ loopPc = "polling"
  /\ getEventsAnswer
  /\ IF cPoll' = "inflight"
       THEN UNCHANGED << loopPc, loopHist >>
     ELSE IF cRet'.outcome = "error"
       THEN /\ loopPc' = afterPollError(cRet'.error)
            /\ loopHist' = [loopHist EXCEPT
                 !.last = IF IsExpiry(cRet'.error) THEN "expired" ELSE "error",
                 !.waitedMs = 0, !.reregistered = FALSE]
     ELSE /\ loopPc' = "top"
          /\ \E now \in Clocks :
               loopHist' = [loopHist EXCEPT
                 !.last = IF cRet'.outcome = "abort" THEN cRet'.abortedBy ELSE "events",
                 !.waitedMs = 0, !.reregistered = FALSE,
                 !.notified = processEvents(cRet'.events, DEFAULT_SETTINGS,
                                            AccountUserId, now)]
  /\ UNCHANGED << pollLoopActive, connectionState, keepaliveSec, cDisc, cDiscRet,
                  workerVars, filterVars, lifeVars >>

\* startPollLoop lines 289-300: registerQueue from its await on
AppLoopReregister ==
  /\ loopPc = "reregister"
  /\ \E status \in RegisterAnswers :
       /\ registerQueue(status)
       /\ IF Ok(status)
            THEN /\ loopPc' = "top"
                 /\ loopHist' = [loopHist EXCEPT !.reregistered = TRUE]
                 /\ UNCHANGED connectionState
            ELSE /\ loopPc' = "ended"
                 /\ connectionState' = "error"
                 /\ UNCHANGED loopHist
  /\ UNCHANGED << pollLoopActive, keepaliveSec, cPoll, cAborted, cRet, cDisc, cDiscRet,
                  workerVars, filterVars, lifeVars >>

\* startPollLoop lines 301-305: the backoff timer fires
AppLoopBackoff ==
  /\ loopPc = "backoff"
  /\ loopPc' = "top"
  /\ loopHist' = [loopHist EXCEPT !.waitedMs = BackoffMs]
  /\ UNCHANGED << pollLoopActive, connectionState, keepaliveSec, clientVars,
                  workerVars, filterVars, lifeVars >>

\* setSettings (lines 109-124) with a keepaliveSec
AppSetSettings ==
  /\ \E k \in KeepaliveChoices : keepaliveSec' = k
  /\ IF isConnected THEN abortCurrentPoll ELSE UNCHANGED cAborted
  /\ UNCHANGED << pollLoopActive, connectionState, loopPc, loopHist,
                  cQueueId, cLastEventId, cPoll, cRet, cDisc, cDiscRet,
                  workerVars, filterVars, lifeVars >>

(* ------------- App: connect(), disconnect() and their loops ----------- *)
\* connect() calls of a session; each makes a ZulipClient of its own (line 199),
\* and starts at most one poll loop, so the clients and the loops carry the
\* number of the call
MaxConnects == 2
Calls == 1..MaxConnects
\* this.client = null
NoClient == 0
\* state.error = null
NoError == "null"

\* the messages of the device's queue: somebody else mentions the user, or the
\* user's own message
LocalMessages == { LocalMessage, [LocalMessage EXCEPT !.senderId = AccountUserId] }
MessageIds == 1..MaxId

\* what connect(), disconnect() and the loops do not touch
restVars == << workerVars, clientVars, filterVars, keepaliveSec, loopPc, loopHist >>

NoWait == [pc |-> "idle", on |-> NoClient]
NoLifeHistory == [quiet |-> FALSE, catchups |-> 0, caught |-> {}]

Running(l) == loops[l].pc \in {"polling", "reregister", "backoff"}

\* startPollLoop line 279, then lines 281-283: the loop condition, and
\* getEvents called on this.client up to its await
turn(l, active, cl, q) ==
  IF active /\ cl # NoClient /\ q[cl] THEN [pc |-> "polling", on |-> cl]
                                      ELSE [pc |-> "ended", on |-> NoClient]

\* loop l comes to its loop condition, the flag, this.client and the clients'
\* queues being what the step leaves
Turn(l, active, cl, q) ==
  LET t == turn(l, active, cl, q)
  IN  /\ loops' = [loops EXCEPT ![l] = t]
      /\ abortOf' = IF t.pc = "polling" THEN [abortOf EXCEPT ![t.on] = l] ELSE abortOf

\* startPollLoop lines 272-275: the call returns when the flag is set
skipsWhenActive(active) == active

\* startPollLoop (lines 271-283) called by connect() number k
startPollLoop(k) ==
  IF skipsWhenActive(pollLoopActive)
    THEN UNCHANGED << pollLoopActive, loops, abortOf >>
    ELSE /\ pollLoopActive' = TRUE
         /\ Turn(k, TRUE, client, queueOf)

\* mutant: the id of the message notified about is taken whatever it is
handleMessageTakesId(last, event, settings, userId, now) ==
  IF AppShouldNotify(settings, event.message, userId, now) THEN event.id ELSE last

\* handleMessage (lines 459-491): lastNotifiedMsgId after the message event
handleMessage(last, event, settings, userId, now) ==
  IF ~AppShouldNotify(settings, event.message, userId, now) THEN last
  ELSE IF event.id > last THEN event.id
  ELSE last

RECURSIVE SetMax(_)
SetMax(ids) ==
  LET i == CHOOSE x \in ids : TRUE
  IN  IF ids = {i} THEN i ELSE Max(i, SetMax(ids \ {i}))

\* catchUpUnreadMessages lines 502-529: the unread messages it notifies about,
\* and lastNotifiedMsgId after it
catchUpUnreadMessages(last, unreads) ==
  LET newUnreads == { id \in unreads : id > last }
  IN  [ shown |-> newUnreads,
        last  |-> IF newUnreads = {} THEN last ELSE SetMax(newUnreads) ]

\* connect lines 242-247: the catch
ConnectFails(k, message) ==
  /\ connectionState' = "error"
  /\ stateError' = message
  /\ client' = NoClient
  /\ conn' = [conn EXCEPT ![k] = [pc |-> "done", on |-> NoClient]]

\* connect lines 188-203: up to the await of testConnection
AppConnect(k) ==
  /\ conn[k].pc = "idle"
  /\ \A j \in Calls : j < k => conn[j].pc # "idle"
  /\ connectionState' = "connecting"
  /\ stateError' = NoError
  /\ client' = k
  /\ conn' = [conn EXCEPT ![k] = [pc |-> "auth", on |-> k]]
  /\ lifeHist' = [lifeHist EXCEPT !.quiet = FALSE]
  /\ UNCHANGED << pollLoopActive, queueOf, abortOf, disc, loops, lastNotifiedMsgId, restVars >>

\* connect lines 203-215: testConnection and requestPermission have answered;
\* on the web registerQueue is called on this.client, up to its await
AppConnectAuth(k) ==
  /\ conn[k].pc = "auth"
  /\ \E answer \in VerifyAnswers :
       IF ~Ok(answer) THEN ConnectFails(k, "Failed to authenticate with Zulip")
       ELSE IF client = NoClient THEN ConnectFails(k, "TypeError")
       ELSE /\ conn' = [conn EXCEPT ![k] = [pc |-> "registering", on |-> client]]
            /\ UNCHANGED << connectionState, stateError, client >>
  /\ UNCHANGED << pollLoopActive, queueOf, abortOf, disc, loops, lastNotifiedMsgId, lifeHist,
                  restVars >>

\* connect lines 215-223: registerQueue has answered; up to the await of storage
AppConnectRegistered(k) ==
  /\ conn[k].pc = "registering"
  /\ \E status \in RegisterAnswers :
       IF ~Ok(status)
         THEN /\ ConnectFails(k, "Zulip API error")
              /\ UNCHANGED queueOf
         ELSE /\ queueOf' = [queueOf EXCEPT ![conn[k].on] = TRUE]
              /\ connectionState' = "connected"
              /\ conn' = [conn EXCEPT ![k] = [pc |-> "catchup", on |-> NoClient]]
              /\ UNCHANGED << stateError, client >>
  /\ UNCHANGED << pollLoopActive, abortOf, disc, loops, lastNotifiedMsgId, lifeHist, restVars >>

\* connect lines 223-240 and catchUpUnreadMessages lines 495-499: the catch-up
\* is called; without a client it returns and startPollLoop is called
AppCatchUp(k) ==
  /\ conn[k].pc = "catchup"
  /\ IF client = NoClient
       THEN /\ conn' = [conn EXCEPT ![k] = [pc |-> "done", on |-> NoClient]]
            /\ startPollLoop(k)
       ELSE /\ conn' = [conn EXCEPT ![k] = [pc |-> "unreads", on |-> client]]
            /\ UNCHANGED << pollLoopActive, loops, abortOf >>
  /\ UNCHANGED << connectionState, stateError, client, queueOf, disc, lastNotifiedMsgId,
                  lifeHist, restVars >>

\* catchUpUnreadMessages lines 499-533, then connect line 240: getUnreadMessages
\* has answered (or thrown, which the catch-up swallows); startPollLoop is called
AppCatchUpAnswer(k) ==
  /\ conn[k].pc = "unreads"
  /\ \E unreads \in SUBSET MessageIds, threw \in BOOLEAN :
       LET r == IF threw THEN [shown |-> {}, last |-> lastNotifiedMsgId]
                         ELSE catchUpUnreadMessages(lastNotifiedMsgId, unreads)
       IN  /\ lastNotifiedMsgId' = r.last
           /\ lifeHist' = [lifeHist EXCEPT !.catchups = @ + 1, !.caught = r.shown]
  /\ conn' = [conn EXCEPT ![k] = [pc |-> "done", on |-> NoClient]]
  /\ startPollLoop(k)
  /\ UNCHANGED << connectionState, stateError, client, queueOf, disc, restVars >>

\* disconnect lines 251-256: the flag is cleared; up to the await of storage
AppDisconnect ==
  /\ disc.pc = "idle"
  /\ \E k \in Calls : conn[k].pc # "idle"
  /\ pollLoopActive' = FALSE
  /\ disc' = [pc |-> "cleanup", on |-> NoClient]
  /\ UNCHANGED << connectionState, client, queueOf, abortOf, conn, loops, stateError,
                  lastNotifiedMsgId, lifeHist, restVars >>

\* disconnect lines 266-267 (and 263): the call completes
DisconnectCompletes ==
  /\ client' = NoClient
  /\ connectionState' = "disconnected"
  /\ stateError' = NoError
  /\ lifeHist' = [lifeHist EXCEPT !.quiet = \A k \in Calls : conn[k].pc \in {"idle", "done"}]

\* disconnect lines 259-262 and ZulipClient.disconnect lines 143-148: the
\* client in this.client aborts its poll and sends its DELETE. The aborted
\* getEvents returns no events and its loop comes to the loop condition at once.
AppDisconnectClient ==
  /\ disc.pc = "cleanup"
  /\ LET target  == client
         aborted == IF target = NoClient THEN 0 ELSE abortOf[target]
         resumes == /\ aborted # 0
                    /\ loops[aborted].pc = "polling"
                    /\ loops[aborted].on = target
     IN  IF target # NoClient /\ queueOf[target]
           THEN /\ disc' = [pc |-> "deleting", on |-> target]
                /\ IF resumes THEN Turn(aborted, pollLoopActive, client, queueOf)
                              ELSE UNCHANGED << loops, abortOf >>
                /\ UNCHANGED << client, connectionState, stateError, lifeHist >>
           ELSE /\ disc' = NoWait
                /\ DisconnectCompletes
                /\ IF resumes THEN Turn(aborted, pollLoopActive, client, queueOf)
                              ELSE UNCHANGED << loops, abortOf >>
  /\ UNCHANGED << pollLoopActive, queueOf, conn, lastNotifiedMsgId, restVars >>

\* ZulipClient.disconnect lines 148-155 and disconnect lines 263-267: the DELETE
\* has answered, whatever it answered
AppDisconnectDone ==
  /\ disc.pc = "deleting"
  /\ queueOf' = [queueOf EXCEPT ![disc.on] = FALSE]
  /\ disc' = NoWait
  /\ DisconnectCompletes
  /\ UNCHANGED << pollLoopActive, abortOf, conn, loops, lastNotifiedMsgId, restVars >>

\* startPollLoop lines 296-300: the re-registration failed
LoopGivesUp(l) ==
  /\ connectionState' = "error"
  /\ stateError' = "Failed to re-register event queue"
  /\ loops' = [loops EXCEPT ![l] = [pc |-> "ended", on |-> NoClient]]
  /\ UNCHANGED abortOf

\* startPollLoop lines 283-306: getEvents has answered - no event or one message
\* event, or an error
LoopAnswer(l) ==
  /\ loops[l].pc = "polling"
  /\ \E answer \in PollAnswers :
       IF Ok(answer)
         THEN /\ \E events \in { <<>> } \cup
                     { << [id |-> i, message |-> m] >> : i \in MessageIds, m \in LocalMessages } :
                   \E now \in Clocks :
                     lastNotifiedMsgId' =
                       IF events = <<>> THEN lastNotifiedMsgId
                       ELSE handleMessage(lastNotifiedMsgId, events[1], DEFAULT_SETTINGS,
                                          AccountUserId, now)
              /\ Turn(l, pollLoopActive, client, queueOf)
              /\ UNCHANGED << connectionState, stateError >>
       ELSE IF afterPollError(ErrorOf(answer)) = "backoff"
         THEN /\ loops' = [loops EXCEPT ![l] = [pc |-> "backoff", on |-> NoClient]]
              /\ UNCHANGED << connectionState, stateError, abortOf, lastNotifiedMsgId >>
       ELSE IF client = NoClient
         THEN /\ LoopGivesUp(l)
              /\ UNCHANGED lastNotifiedMsgId
       ELSE /\ loops' = [loops EXCEPT ![l] = [pc |-> "reregister", on |-> client]]
            /\ UNCHANGED << connectionState, stateError, abortOf, lastNotifiedMsgId >>
  /\ UNCHANGED << pollLoopActive, client, queueOf, conn, disc, lifeHist, restVars >>

\* startPollLoop lines 292-300: registerQueue has answered
LoopReregistered(l) ==
  /\ loops[l].pc = "reregister"
  /\ \E status \in RegisterAnswers :
       IF Ok(status)
         THEN /\ queueOf' = [queueOf EXCEPT ![loops[l].on] = TRUE]
              /\ Turn(l, pollLoopActive, client, [queueOf EXCEPT ![loops[l].on] = TRUE])
              /\ UNCHANGED << connectionState, stateError >>
         ELSE /\ LoopGivesUp(l)
              /\ UNCHANGED queueOf
  /\ UNCHANGED << pollLoopActive, client, conn, disc, lastNotifiedMsgId, lifeHist, restVars >>

\* startPollLoop line 305: the backoff timer fires
LoopBackoff(l) ==
  /\ loops[l].pc = "backoff"
  /\ Turn(l, pollLoopActive, client, queueOf)
  /\ UNCHANGED << pollLoopActive, connectionState, stateError, client, queueOf, conn, disc,
                  lastNotifiedMsgId, lifeHist, restVars >>

\* no connect() or disconnect() has been called
InitNoCalls ==
  /\ client = NoClient
  /\ queueOf = [k \in Calls |-> FALSE]
  /\ abortOf = [k \in Calls |-> 0]
  /\ conn = [k \in Calls |-> NoWait]
  /\ disc = NoWait
  /\ loops = [k \in Calls |-> [pc |-> "off", on |-> NoClient]]
  /\ stateError = NoError
  /\ lastNotifiedMsgId = 0
  /\ lifeHist = NoLifeHistory

NextLife ==
  \/ \E k \in Calls : AppConnect(k)
  \/ \E k \in Calls : AppConnectAuth(k)
  \/ \E k \in Calls : AppConnectRegistered(k)
  \/ \E k \in Calls : AppCatchUp(k)
  \/ \E k \in Calls : AppCatchUpAnswer(k)
  \/ AppDisconnect
  \/ AppDisconnectClient
  \/ AppDisconnectDone
  \/ \E l \in Calls : LoopAnswer(l)
  \/ \E l \in Calls : LoopReregistered(l)
  \/ \E l \in Calls : LoopBackoff(l)

\* the App before connect()
InitApp ==
  /\ pollLoopActive = FALSE
  /\ connectionState = "disconnected"
  /\ keepaliveSec = 90
  /\ loopPc = "off"
  /\ loopHist = NoLoopHistory
  /\ InitNoCalls

NextApp ==
  \/ AppStartPollLoop
  \/ AppLoopPoll
  \/ AppLoopAnswer
  \/ AppLoopReregister
  \/ AppLoopBackoff
  \/ AppSetSettings
  \/ ClientPollTimer

(* --------------------------- specification ---------------------------- *)
InitWorker(registered, queues, events, faults) ==
  /\ quota = [queues |-> queues, events |-> events, faults |-> faults]
  /\ store = [e \in registered |-> NewSubscription]
  /\ srvQueue = [e \in Endpoints |-> NoQueue]
  /\ srvIssued = [e \in Endpoints |-> 0]
  /\ srvEvents = [e \in Endpoints |-> <<>>]
  /\ pc = [e \in Endpoints |-> "idle"]
  /\ sub = [e \in Endpoints |-> NewSubscription]
  /\ evs = [e \in Endpoints |-> <<>>]
  /\ rnd = [e \in Endpoints |-> FreshRound]
  /\ pushCount = [e \in Endpoints |-> NoHistory]
  /\ handled = [e \in Endpoints |-> NoHistory]
  /\ written = [e \in Endpoints |-> NewSubscription]
  /\ inflight = [e \in Endpoints |-> 0]
  /\ schedPc = "idle"
  /\ round = 0
  /\ keys = <<>>
  /\ batchAt = 1
  /\ polled = {}
  /\ shape = NoRounds
  /\ upd = [u \in UpdateRequests |-> NoUpdate]
  /\ tp = NoTestPush
  /\ resp = NoResponse
  /\ updHist = [u \in UpdateRequests |-> NoUpdateHistory]

\* one subscription has registered with the worker
Init == InitWorker({"e1"}, MaxQueues, MaxEvents, TRUE) /\ InitCodec /\ InitClient /\ InitApp /\ InitFilter

NextWorker ==
  \/ Scheduled
  \/ ListKeys
  \/ StartBatch
  \/ AwaitBatch
  \/ EndRound
  \/ \E e \in Endpoints : PollUserGet(e)
  \/ \E e \in Endpoints : PollUserRegister(e)
  \/ \E e \in Endpoints : PollUserEvents(e)
  \/ \E e \in Endpoints : PollUserLoop(e)
  \/ \E e \in Endpoints : PollUserFinish(e)
  \/ \E e \in Endpoints : ServerEvent(e)
  \/ \E e \in Endpoints : ServerExpire(e)

Next == NextWorker

vars == << workerVars, clientVars, appVars, filterVars, lifeVars >>

Spec == Init /\ [][Next]_vars

\* two endpoints, one batch, have registered with the worker; the chat server
\* gives each account one queue holding one event, and keeps the queue
InitBatch == InitWorker({"e1", "e2"}, 1, 1, TRUE) /\ InitCodec /\ InitClient /\ InitApp /\ InitFilter

NextBatch ==
  \/ Scheduled
  \/ ListKeys
  \/ StartBatch
  \/ AwaitBatch
  \/ EndRound
  \/ \E e \in Endpoints : PollUserGet(e)
  \/ \E e \in Endpoints : PollUserRegister(e)
  \/ \E e \in Endpoints : PollUserEvents(e)
  \/ \E e \in Endpoints : PollUserLoop(e)
  \/ \E e \in Endpoints : PollUserFinish(e)
  \/ \E e \in Endpoints : ServerEvent(e)

SpecBatch == InitBatch /\ [][NextBatch]_vars

\* three endpoints, two batches, have registered with the worker; the chat
\* server gives each account one queue and no event
InitRounds == InitWorker(Endpoints, 1, 0, TRUE) /\ InitCodec /\ InitClient /\ InitApp /\ InitFilter

NextRounds ==
  \/ Scheduled
  \/ ListKeys
  \/ StartBatch
  \/ AwaitBatch
  \/ EndRound
  \/ \E e \in Endpoints : PollUserGet(e)
  \/ \E e \in Endpoints : PollUserRegister(e)
  \/ \E e \in Endpoints : PollUserEvents(e)
  \/ \E e \in Endpoints : PollUserFinish(e)

\* every await of an invocation settles: the store, the chat server and the
\* timer answer
FairRounds ==
  /\ WF_vars(ListKeys)
  /\ WF_vars(StartBatch)
  /\ WF_vars(AwaitBatch)
  /\ WF_vars(EndRound)
  /\ \A e \in Endpoints :
       /\ WF_vars(PollUserGet(e))
       /\ WF_vars(PollUserRegister(e))
       /\ WF_vars(PollUserEvents(e))
       /\ WF_vars(PollUserFinish(e))

SpecRounds == InitRounds /\ [][NextRounds]_vars /\ FairRounds

\* the HTTP handlers alone: no subscription yet, no cron trigger
InitApi == InitWorker({}, 0, 0, TRUE) /\ InitCodec /\ InitClient /\ InitApp /\ InitFilter

NextApi ==
  \/ HandleRegister
  \/ \E u \in UpdateRequests : HandleUpdateGet(u)
  \/ \E u \in UpdateRequests : HandleUpdatePut(u)
  \/ HandleUnregister
  \/ HandleTestPushGet
  \/ HandleTestPushAnswer

SpecApi == InitApi /\ [][NextApi]_vars

\* POST /update while the cron trigger polls: one subscription has registered;
\* the chat server gives the account two queues and no event, and does not fail
InitRace == InitWorker({"e1"}, 2, 0, FALSE) /\ InitCodec /\ InitClient /\ InitApp /\ InitFilter

NextRace ==
  \/ Scheduled
  \/ ListKeys
  \/ StartBatch
  \/ AwaitBatch
  \/ EndRound
  \/ \E e \in Endpoints : PollUserGet(e)
  \/ \E e \in Endpoints : PollUserRegister(e)
  \/ \E e \in Endpoints : PollUserEvents(e)
  \/ \E e \in Endpoints : PollUserFinish(e)
  \/ \E u \in UpdateRequests : HandleUpdateGet(u)
  \/ \E u \in UpdateRequests : HandleUpdatePut(u)

SpecRace == InitRace /\ [][NextRace]_vars

\* sendWebPush alone, and the browser receiving its request
InitCodecOnly ==
  InitWorker({}, 0, 0, TRUE) /\ InitCodecCall /\ InitClient /\ InitApp /\ InitFilter

NextCodec ==
  \/ SendWebPush
  \/ BrowserReceive

SpecCodec == InitCodecOnly /\ [][NextCodec]_vars

\* the device-local client alone
InitClientOnly == InitWorker({}, 0, 0, TRUE) /\ InitCodec /\ InitClient /\ InitApp /\ InitFilter

SpecClient == InitClientOnly /\ [][NextClient]_vars

\* the poll loop of a connected App on the web: connect() has registered the
\* queue and is about to call startPollLoop
InitLoop ==
  /\ InitWorker({}, 0, 0, TRUE)
  /\ InitCodec
  /\ InitFilter
  /\ cQueueId = 1
  /\ cLastEventId = NoEvent
  /\ cPoll = "idle"
  /\ cAborted = "no"
  /\ cRet = NoCall
  /\ cDisc = "idle"
  /\ cDiscRet = NoDisconnect
  /\ pollLoopActive = FALSE
  /\ connectionState = "connected"
  /\ keepaliveSec = 90
  /\ loopPc = "off"
  /\ loopHist = NoLoopHistory
  /\ InitNoCalls

SpecApp == InitLoop /\ [][NextApp]_vars

\* subscriptions come and go while the cron trigger polls: nothing is registered
\* at first; the chat server gives the account one queue holding one event, and
\* its answers include failures
InitChurn == InitWorker({}, 1, 1, TRUE) /\ InitCodec /\ InitClient /\ InitApp /\ InitFilter

NextChurn ==
  \/ Scheduled
  \/ ListKeys
  \/ StartBatch
  \/ AwaitBatch
  \/ EndRound
  \/ \E e \in Endpoints : PollUserGet(e)
  \/ \E e \in Endpoints : PollUserRegister(e)
  \/ \E e \in Endpoints : PollUserEvents(e)
  \/ \E e \in Endpoints : PollUserLoop(e)
  \/ \E e \in Endpoints : PollUserFinish(e)
  \/ \E e \in Endpoints : ServerEvent(e)
  \/ HandleRegister
  \/ HandleUnregister

SpecChurn == InitChurn /\ [][NextChurn]_vars

\* the events of a queue, on both paths. Cloud: a round has started pollUser
\* for the one subscription, whose queue holds one event of any kind. Device:
\* connect() has registered the queue and is about to call startPollLoop. The
\* chat server does not fail.
InitEvents ==
  /\ quota = [queues |-> 1, events |-> 1, faults |-> FALSE]
  /\ store = [e \in {"e1"} |-> [NewSubscription EXCEPT !.queueId = 1]]
  /\ srvQueue = [e \in Endpoints |-> IF e = "e1" THEN 1 ELSE NoQueue]
  /\ srvIssued = [e \in Endpoints |-> IF e = "e1" THEN 1 ELSE 0]
  /\ \E p \in Payloads :
       srvEvents = [e \in Endpoints |-> IF e = "e1" THEN << p >> ELSE <<>>]
  /\ pc = [e \in Endpoints |-> IF e = "e1" THEN "get" ELSE "idle"]
  /\ sub = [e \in Endpoints |-> NewSubscription]
  /\ evs = [e \in Endpoints |-> <<>>]
  /\ rnd = [e \in Endpoints |-> FreshRound]
  /\ pushCount = [e \in Endpoints |-> NoHistory]
  /\ handled = [e \in Endpoints |-> NoHistory]
  /\ written = [e \in Endpoints |-> [NewSubscription EXCEPT !.queueId = 1]]
  /\ inflight = [e \in Endpoints |-> IF e = "e1" THEN 1 ELSE 0]
  /\ schedPc = "wait"
  /\ round = 0
  /\ keys = << "e1" >>
  /\ batchAt = 1
  /\ polled = {"e1"}
  /\ shape = [NoRounds EXCEPT !.rounds = 1]
  /\ upd = [u \in UpdateRequests |-> NoUpdate]
  /\ tp = NoTestPush
  /\ resp = NoResponse
  /\ updHist = [u \in UpdateRequests |-> NoUpdateHistory]
  /\ InitCodec
  /\ InitFilter
  /\ cQueueId = 1
  /\ cLastEventId = NoEvent
  /\ cPoll = "idle"
  /\ cAborted = "no"
  /\ cRet = NoCall
  /\ cDisc = "idle"
  /\ cDiscRet = NoDisconnect
  /\ InitApp

NextEvents ==
  \/ \E e \in Endpoints : PollUserGet(e)
  \/ \E e \in Endpoints : PollUserEvents(e)
  \/ \E e \in Endpoints : PollUserLoop(e)
  \/ \E e \in Endpoints : PollUserFinish(e)
  \/ AppStartPollLoop
  \/ AppLoopPoll
  \/ AppLoopAnswer

SpecEvents == InitEvents /\ [][NextEvents]_vars

\* the App on the web: connect() and disconnect() called at any time
InitLife == InitWorker({}, 0, 0, TRUE) /\ InitCodec /\ InitClient /\ InitApp /\ InitFilter

SpecLife == InitLife /\ [][NextLife]_vars

\* calls of shouldNotify
InitFilterOnly == InitWorker({}, 0, 0, TRUE) /\ InitCodec /\ InitClient /\ InitApp /\ InitFilterCall

SpecFilter == InitFilterOnly /\ [][FilterDecide]_vars

\* calls of App.shouldNotify, on the same arguments
SpecLocal == InitFilterOnly /\ [][AppDecide]_vars

(* ----------------------------- properties ----------------------------- *)
Stored(e) == e \in DOMAIN store

\* C1 (as claimed): once incrementFailures has taken the counter of a subscription
\* to MAX_FAILURES in a round - after a failed registration, a failed poll or a
\* failed push - the subscription is absent from the store when the round of that
\* subscription has finished.
C1_EvictedAtThreshold ==
  \A e \in Endpoints : (pc[e] = "done" /\ rnd[e].hit5) => ~Stored(e)

\* C2 (as claimed): once a push of the round was answered 404 or 410, no further
\* push is attempted for the subscription in that round, and the subscription is
\* absent from the store when the round has finished.
C2_GoneIsDeleted ==
  \A e \in Endpoints :
    rnd[e].gone => (~rnd[e].afterGone /\ (pc[e] = "done" => ~Stored(e)))

\* C3: when the round's poll of the chat server succeeded, then whatever the
\* pushes of the round were answered, the round leaves the subscription stored
\* with failures = 0.
C3_ResetOnSuccessfulPoll ==
  \A e \in Endpoints :
    (pc[e] = "done" /\ rnd[e].poll = "ok") => (Stored(e) /\ store[e].failures = 0)

\* C3 witness: a round that read failures = 4, polled successfully, had a push
\* fail, and left the subscription stored with failures = 0.
C3_Witness ==
  \E e \in Endpoints :
    /\ pc[e] = "done" /\ rnd[e].poll = "ok" /\ rnd[e].f0 = 4 /\ rnd[e].hit5
    /\ Stored(e) /\ store[e].failures = 0

\* C4: no event is pushed more than once and no event is looped over by more
\* than one round, whether the filters let it through or not.
C4_AtMostOnce ==
  \A e \in Endpoints : \A k \in EventIds :
    pushCount[e][k] <= 1 /\ handled[e][k] <= 1

\* C4 witness: a later round of the same queue polled successfully after event 0
\* was pushed and event 1 was suppressed by the filters, and pushed nothing.
C4_Witness ==
  \E e \in Endpoints :
    /\ pc[e] = "done" /\ rnd[e].poll = "ok" /\ rnd[e].pushes = 0
    /\ Stored(e) /\ store[e].queueId = 1 /\ store[e].lastEventId = 1
    /\ handled[e][0] = 1 /\ pushCount[e][0] = 1
    /\ handled[e][1] = 1 /\ pushCount[e][1] = 0

\* C5 (as claimed): the lastEventId written for a subscription is never below
\* the one written before.
C5_NeverDecreases ==
  [][\A e \in Endpoints : written'[e].lastEventId >= written[e].lastEventId]_vars

\* C5 (amended): the lastEventId written for a subscription is below the one
\* written before only when the round has registered a new queue.
C5_DecreasesOnlyOnRegistration ==
  [][\A e \in Endpoints :
       written'[e].lastEventId < written[e].lastEventId =>
         (written'[e].queueId # NoQueue /\ written'[e].queueId # written[e].queueId)]_vars

\* C5 witness: a second queue is in use and its events have moved lastEventId.
C5_Witness ==
  \E e \in Endpoints :
    Stored(e) /\ store[e].queueId = 2 /\ store[e].lastEventId = 1 /\ store[e].failures = 0

StoreAt(e) == IF Stored(e) THEN << store[e] >> ELSE << >>
Active(e)  == pc[e] \in {"get", "register", "events", "loop"}
OwnStep(e) == pc'[e] # pc[e] \/ sub'[e] # sub[e] \/ evs'[e] # evs[e]

\* C6: pollUser never rejects; the stored record of a subscription changes only
\* in a step of that subscription's own pollUser call, whatever happens to the
\* other calls of the batch; and when a round has gone through its batches,
\* pollUser has been started for every key the round listed.
C6_Isolation ==
  /\ [](\A e \in Endpoints : pc[e] # "rejected")
  /\ []((schedPc = "batch" /\ batchAt > Len(keys)) =>
          \A j \in 1..Len(keys) : keys[j] \in polled)
  /\ [][\A e \in Endpoints :
          StoreAt(e)' # StoreAt(e) => (Active(e) /\ OwnStep(e))]_vars

\* C6 witness: in one batch the call of one subscription threw and the call of
\* another polled successfully, pushed, and wrote its record.
C6_Witness ==
  \E e1, e2 \in Endpoints :
    /\ e1 # e2
    /\ pc[e1] = "done" /\ rnd[e1].poll \in {"threw", "regthrew"}
    /\ pc[e2] = "done" /\ rnd[e2].poll = "ok" /\ rnd[e2].pushes = 1
    /\ Stored(e2) /\ store[e2].lastEventId = 0

C8_QueueExpiry ==
  /\ [](\A e \in Endpoints :
          (pc[e] = "done" /\ rnd[e].poll = "expired") =>
            /\ Stored(e)
            /\ store[e].queueId = NoQueue
            /\ store[e].failures = rnd[e].f0
            /\ rnd[e].pushes = 0)
  /\ [](\A e \in Endpoints : pc[e] = "events" => sub[e].queueId # NoQueue)
  /\ [][\A e \in Endpoints :
          (pc[e] = "get" /\ Stored(e) /\ store[e].queueId = NoQueue /\ pc'[e] # "get")
            => pc'[e] = "register"]_vars

\* C8 witness: a round that read failures = 1 met queue-not-found and left the
\* record with queueId = null and failures = 1.
C8_Witness ==
  \E e \in Endpoints :
    /\ pc[e] = "done" /\ rnd[e].poll = "expired" /\ rnd[e].f0 = 1
    /\ Stored(e) /\ store[e].queueId = NoQueue /\ store[e].failures = 1

\* C9 (as claimed): a round whose registration failed, or whose poll failed other
\* than by queue-not-found - by an HTTP error status or by a transport error -
\* has counted exactly one failure (the record holds the counter it read plus one,
\* or is evicted at the threshold) and has sent no push.
C9_FailureCounted ==
  \A e \in Endpoints :
    (pc[e] = "done" /\ rnd[e].poll \in {"regfailed", "regthrew", "failed", "threw"}) =>
      /\ rnd[e].pushes = 0
      /\ IF rnd[e].f0 + 1 >= MAX_FAILURES
           THEN ~Stored(e)
           ELSE Stored(e) /\ store[e].failures = rnd[e].f0 + 1

\* C10 (as claimed): a getEvents call that returns a non-empty batch leaves
\* lastEventId at the largest event id of the batch; one that returns an empty
\* batch leaves lastEventId as it was.
C10_LastEventIdIsMax ==
  [][(cPoll = "inflight" /\ cRet'.outcome = "events") =>
       cLastEventId' = IF cRet'.events = << >> THEN cRet.prev
                       ELSE MaxIdOf(cRet'.events)]_vars

\* C11 (as claimed): a getEvents call that fails with the queue-expired
\* signature leaves the client with queueId = null (isConnected() false) and
\* lastEventId as it was, so no poll request is sent until registerQueue has run.
C11_ExpiryClearsQueue ==
  [][(cPoll = "inflight" /\ cPoll' = "idle" /\ IsExpiry(cRet'.error)) =>
       (cQueueId' = NoQueue /\ ~isConnected' /\ cLastEventId' = cLastEventId)]_vars

\* C12: a poll in flight that the caller aborts with abortCurrentPoll resolves
\* with an empty batch, not an error, and leaves queueId and lastEventId as they
\* were; the loop goes on to its next poll without a backoff wait, and that poll
\* uses the keepalive value of the settings as they are then.
C12_AbortRestartsPoll ==
  /\ [][(loopPc = "polling" /\ cAborted = "abortCurrentPoll" /\ cPoll' = "idle") =>
          /\ cRet'.outcome = "abort" /\ cRet'.events = << >> /\ cRet'.error = ""
          /\ cQueueId' = cQueueId /\ cLastEventId' = cLastEventId
          /\ loopPc' = "top"]_vars
  /\ [][(loopHist.last = "abortCurrentPoll" /\ loopPc # "polling" /\ loopPc' # loopPc) =>
          /\ loopPc = "top" /\ loopPc' = "polling"
          /\ loopHist.waitedMs = 0
          /\ cRet'.timeoutMs = keepaliveSec * 1000
          /\ cRet'.requests = 1]_vars

\* C12 witness: the keepalive was changed from 90 to 30 while a poll with the
\* 90 s timeout was in flight; that poll was aborted and the next one is in
\* flight with the 30 s timeout.
C12_Witness ==
  /\ loopPc = "polling" /\ cPoll = "inflight"
  /\ loopHist.last = "abortCurrentPoll"
  /\ loopHist.before = 90000
  /\ keepaliveSec = 30 /\ cRet.timeoutMs = 30000

\* C13: after a poll error that is not queue expiry the loop waits the 2 s
\* backoff and then goes back to polling; after a queue-expiry error it
\* re-registers and goes back to polling with no backoff wait; when that
\* re-registration fails the loop ends and connectionState is 'error'.
C13_LoopErrorHandling ==
  /\ [][(loopPc = "polling" /\ cPoll' = "idle" /\ cRet'.outcome = "error") =>
          loopPc' = IF IsExpiry(cRet'.error) THEN "reregister" ELSE "backoff"]_vars
  /\ [][(loopPc = "backoff" /\ loopPc' # loopPc) =>
          (loopPc' = "top" /\ loopHist'.waitedMs = 2000)]_vars
  /\ [][(loopPc = "reregister" /\ loopPc' # loopPc) =>
          \/ loopPc' = "top" /\ loopHist'.reregistered /\ loopHist'.waitedMs = 0
                /\ connectionState' = connectionState
          \/ loopPc' = "ended" /\ connectionState' = "error"
                /\ cQueueId' = cQueueId]_vars
  /\ [][(loopPc = "top" /\ loopPc' # loopPc /\ loopHist.last \in {"error", "expired"}) =>
          /\ loopPc' = "polling"
          /\ loopHist.last = "error" => (loopHist.waitedMs = 2000 /\ ~loopHist.reregistered)
          /\ loopHist.last = "expired" => (loopHist.waitedMs = 0 /\ loopHist.reregistered)]_vars
  /\ [](loopPc = "ended" => connectionState = "error")

\* C13 witness: the loop re-registered after a queue-expiry error and has its
\* next poll in flight without having waited.
C13_Witness ==
  /\ loopPc = "polling" /\ cPoll = "inflight"
  /\ loopHist.last = "expired" /\ loopHist.reregistered /\ loopHist.waitedMs = 0

\* C14: whenever a disconnect call ends - its DELETE answered with success,
\* answered with an error status, thrown, or not sent because there was no queue
\* - it returns without raising and the client has queueId = null and
\* lastEventId = -1.
C14_DisconnectUnregisters ==
  [][(cDiscRet'.seq # cDiscRet.seq) =>
       /\ cDiscRet'.outcome = "returned"
       /\ cQueueId' = NoQueue /\ ~isConnected'
       /\ cLastEventId' = NoEvent]_vars

\* C14 witness: a disconnect whose DELETE threw has returned, and the client is
\* unregistered.
C14_Witness ==
  /\ cDisc = "idle"
  /\ cDiscRet.answer = "throw" /\ cDiscRet.outcome = "returned"
  /\ cQueueId = NoQueue /\ cLastEventId = NoEvent

\* C15: a getEvents call whose request fails with an HTTP error status or a
\* transport error, and was not aborted, ends there: it has made one request,
\* rejects with the error, and leaves queueId and lastEventId as they were; no
\* call ever makes a second request.
C15_ErrorSurfacedOnce ==
  /\ [][(cPoll = "inflight" /\ cPoll' = "idle" /\ cRet'.outcome = "error") =>
          /\ cAborted = "no"
          /\ cRet'.error \in {ErrorOf(a) : a \in PollAnswers \ {"200"}}
          /\ cRet'.requests = 1
          /\ cQueueId' = cQueueId /\ cLastEventId' = cLastEventId]_vars
  /\ [](cRet.requests <= 1)

\* C15 witness: a poll answered 500 has rejected after its one request, with
\* the queue and the last event id the call started with.
C15_Witness ==
  /\ cPoll = "idle"
  /\ cRet.outcome = "error" /\ cRet.error = "Zulip API error 500" /\ cRet.requests = 1
  /\ cQueueId = cRet.prevQueue /\ cQueueId # NoQueue
  /\ cLastEventId = cRet.prev /\ cLastEventId # NoEvent

(* the documented decision order of shouldNotify, rule by rule *)
Decided == fResult # NoResult
Mentioned(msg) == msg.mentioned \/ msg.wildcardMentioned
SentBySelf(in) ==
  in.settings.muteSelfMessages /\ in.userId # NoUserId /\ in.msg.senderId = in.userId
Suppress(reason) == [notify |-> FALSE, reason |-> reason]
Allow(reason) == [notify |-> TRUE, reason |-> reason]

\* whether rule i of the documented order matches the call
RuleMatches(i, in) ==
  CASE i = 1 -> SentBySelf(in)
    [] i = 2 -> isQuietHours(in.settings, in.now)
    [] i = 3 -> isQuietDay(in.settings, in.now)
    [] i = 4 -> in.msg.type = "private"
    [] i = 5 -> \/ Mentioned(in.msg) /\ ~in.settings.notifyOnMention
                \/ ~Mentioned(in.msg) /\ ~in.settings.notifyOnOther
    [] i = 6 -> isChannelMuted(in.settings, in.msg.stream)
    [] i = 7 -> isTopicMuted(in.settings, in.msg.subject)
    [] OTHER -> TRUE

\* what rule i answers
RuleResult(i, in) ==
  CASE i = 1 -> Suppress("self_message")
    [] i = 2 -> Suppress("quiet_hours")
    [] i = 3 -> Suppress("quiet_day")
    [] i = 4 -> IF in.settings.notifyOnDM THEN Allow("dm") ELSE Suppress("dm_disabled")
    [] i = 5 -> IF Mentioned(in.msg) THEN Suppress("mention_disabled")
                                     ELSE Suppress("other_disabled")
    [] i = 6 -> Suppress("muted_channel")
    [] i = 7 -> Suppress("muted_topic")
    [] OTHER -> IF Mentioned(in.msg) THEN Allow("mention") ELSE Allow("other")

FirstRule(in) == CHOOSE i \in 1..8 : RuleMatches(i, in) /\ \A j \in 1..(i - 1) : ~RuleMatches(j, in)

\* rules 1-3 (self-message, quiet hours, quiet day) do not match the call
PastRule3(in) == \A i \in 1..3 : ~RuleMatches(i, in)

\* C16: every call of shouldNotify returns what the first matching rule of the
\* order self_message, quiet_hours, quiet_day, direct message, mention_disabled /
\* other_disabled, muted_channel, muted_topic, mention / other answers.
C16_FirstMatchingRule ==
  Decided => fResult = RuleResult(FirstRule(fIn), fIn)

\* C16 witness: a stream message that mentions the user and was sent by the
\* user, with mute-self and notify-on-mention on and no quiet time, was decided
\* self_message.
C16_Witness ==
  /\ Decided
  /\ SentBySelf(fIn) /\ fIn.msg.mentioned /\ fIn.msg.type = "stream"
  /\ fIn.settings.notifyOnMention
  /\ ~isQuietHours(fIn.settings, fIn.now) /\ ~isQuietDay(fIn.settings, fIn.now)
  /\ fResult = Suppress("self_message")

\* C17: every call of shouldNotify returns a result and raises nothing, the
\* result is the one the same arguments and clock value always give, its reason
\* is one of the 11 documented values, and notify is true exactly for the
\* reasons dm, mention and other.
C17_PureAndTotal ==
  Decided =>
    /\ fResult # Thrown
    /\ fResult = shouldNotify(fIn.settings, fIn.msg, fIn.userId, fIn.now)
    /\ fResult.reason \in { "self_message", "quiet_hours", "quiet_day", "dm_disabled",
                            "mention_disabled", "other_disabled", "muted_channel",
                            "muted_topic", "dm", "mention", "other" }
    /\ fResult.notify = (fResult.reason \in {"dm", "mention", "other"})

\* C17 witness: a call whose muted-topic list holds a pattern that is not a
\* regular expression got as far as the topic check and returned a result.
C17_Witness ==
  /\ Decided
  /\ fIn.settings.mutedTopics # <<>> /\ ~fIn.settings.mutedTopics[1].valid
  /\ fIn.msg.subject = "standup"
  /\ fResult = Allow("other")

\* C18: a direct message that is not suppressed as self-message, by quiet hours
\* or by a quiet day is decided by notify-on-DM alone: dm when it is on,
\* dm_disabled when it is off, whatever the muted streams, the muted topic
\* patterns, notify-on-mention and notify-on-other.
C18_DirectMessageBypass ==
  (Decided /\ fIn.msg.type = "private" /\ PastRule3(fIn)) =>
    fResult = IF fIn.settings.notifyOnDM THEN Allow("dm") ELSE Suppress("dm_disabled")

\* C18 witness: a direct message carrying a muted stream name and a muted topic,
\* with notify-on-mention and notify-on-other off, was decided dm.
C18_Witness ==
  /\ Decided /\ fIn.msg.type = "private" /\ PastRule3(fIn)
  /\ isChannelMuted(fIn.settings, fIn.msg.stream)
  /\ isTopicMuted(fIn.settings, fIn.msg.subject)
  /\ ~fIn.settings.notifyOnMention /\ ~fIn.settings.notifyOnOther
  /\ fResult = Allow("dm")

\* the window test on minutes of day
InWindow(start, end, now) ==
  IF start > end THEN now >= start \/ now < end
                 ELSE now >= start /\ now < end

\* start and end of the call's quiet-hours window are times of day
WindowGiven(in) ==
  /\ Minutes(SplitHM(in.settings.quietHoursStart)) # NaN
  /\ Minutes(SplitHM(in.settings.quietHoursEnd)) # NaN

\* C19: with start and end given as times of day, a call that the self-message
\* rule does not decide is suppressed with reason quiet_hours exactly when quiet
\* hours are enabled and the clock is in the window: from start to end over
\* midnight when start > end, from start up to end otherwise.
C19_QuietHoursWindow ==
  (Decided /\ ~SentBySelf(fIn) /\ WindowGiven(fIn)) =>
    ( fResult = Suppress("quiet_hours")
      <=> /\ fIn.settings.quietHoursEnabled
          /\ InWindow(Minutes(SplitHM(fIn.settings.quietHoursStart)),
                      Minutes(SplitHM(fIn.settings.quietHoursEnd)),
                      fIn.now.h * 60 + fIn.now.m) )

\* C19 witness: with the window 22:00 - 07:00 a call at 06:00 was suppressed
\* with reason quiet_hours.
C19_Witness ==
  /\ Decided /\ ~SentBySelf(fIn)
  /\ fIn.settings.quietHoursEnabled
  /\ fIn.settings.quietHoursStart = "22:00" /\ fIn.settings.quietHoursEnd = "07:00"
  /\ fIn.now.h = 6 /\ fIn.now.m = 0
  /\ fResult = Suppress("quiet_hours")

\* C20: a stream message not suppressed by rules 1-3 is decided mention_disabled
\* when it is a mention (or wildcard mention) and notify-on-mention is off, and
\* other_disabled when it is no mention and notify-on-other is off; with
\* notify-on-mention on and notify-on-other off, an unmentioned message is
\* other_disabled and a mentioned one in an unmuted stream and topic is mention.
C20_StreamGating ==
  (Decided /\ fIn.msg.type = "stream" /\ PastRule3(fIn)) =>
    /\ (Mentioned(fIn.msg) /\ ~fIn.settings.notifyOnMention)
         => fResult = Suppress("mention_disabled")
    /\ (~Mentioned(fIn.msg) /\ ~fIn.settings.notifyOnOther)
         => fResult = Suppress("other_disabled")
    /\ ( /\ fIn.settings.notifyOnMention /\ fIn.msg.mentioned
         /\ ~isChannelMuted(fIn.settings, fIn.msg.stream)
         /\ ~isTopicMuted(fIn.settings, fIn.msg.subject) )
         => fResult = Allow("mention")

\* C20 witness: a stream message carrying only the wildcard-mention flag, with
\* notify-on-mention off and notify-on-other on, was decided mention_disabled.
C20_Witness ==
  /\ Decided /\ fIn.msg.type = "stream" /\ PastRule3(fIn)
  /\ fIn.msg.wildcardMentioned /\ ~fIn.msg.mentioned
  /\ ~fIn.settings.notifyOnMention /\ fIn.settings.notifyOnOther
  /\ fResult = Suppress("mention_disabled")

\* the muted-topic patterns of the call hold one that is no regular expression
HasBrokenPattern(in) ==
  \E i \in 1..Len(in.settings.mutedTopics) : ~in.settings.mutedTopics[i].valid

\* a pattern matches the topic: as a case-insensitive regular expression, or,
\* when it is none, by case-insensitive substring containment
PatternCovers(pattern, topic) ==
  IF pattern.valid THEN RegexTest(pattern, topic)
  ELSE Contains(toLowerCase(topic), toLowerCase(pattern.text))

\* C21: a call whose muted-topic list holds a pattern that is no regular
\* expression does not fail; when the call gets as far as the topic rule, the
\* topic is muted exactly when some pattern of the list covers it - the broken
\* one by case-insensitive substring containment, the others, before and after
\* it, as regular expressions.
C21_BrokenPatternFallsBack ==
  (Decided /\ HasBrokenPattern(fIn)) =>
    /\ fResult # Thrown
    /\ (\A i \in 1..6 : ~RuleMatches(i, fIn)) =>
         ( fResult = Suppress("muted_topic")
           <=> \E i \in 1..Len(fIn.settings.mutedTopics) :
                 PatternCovers(fIn.settings.mutedTopics[i], fIn.msg.subject) )

\* C21 witness: with a broken first pattern, a topic that only the second
\* pattern matches was decided muted_topic.
C21_Witness ==
  /\ Decided /\ Len(fIn.settings.mutedTopics) = 2
  /\ ~fIn.settings.mutedTopics[1].valid
  /\ ~PatternCovers(fIn.settings.mutedTopics[1], fIn.msg.subject)
  /\ PatternCovers(fIn.settings.mutedTopics[2], fIn.msg.subject)
  /\ fResult = Suppress("muted_topic")

\* the keys of the round, as a set
Listed == { keys[j] : j \in 1..Len(keys) }

\* C22: an invocation of pollAllUsers makes exactly 4 rounds, with one 15 s
\* wait between two consecutive rounds and none after the last; a batch holds
\* at most batchSize keys, none of them polled before in the round, and starts
\* when no poll of an earlier batch is unsettled; when a round ends every key
\* it listed has been polled; and the invocation comes to its end.
C22_SchedulerShape ==
  /\ [](shape.rounds <= 4)
  /\ [](schedPc \in {"batch", "wait"} => shape.waitedMs = 15000 * (shape.rounds - 1))
  /\ []((schedPc = "idle" /\ shape.rounds > 0) =>
          (shape.rounds = 4 /\ shape.waitedMs = 3 * 15000))
  /\ [][(schedPc = "batch" /\ schedPc' = "wait") =>
          /\ Batch # {} /\ Cardinality(Batch) <= batchSize
          /\ Batch \cap polled = {}
          /\ Batch \subseteq Listed
          /\ \A e \in Endpoints : pc[e] = "idle"]_vars
  /\ [][(schedPc = "batch" /\ schedPc' \in {"list", "idle"}) => polled = Listed]_vars
  /\ (schedPc # "idle") ~> (schedPc = "idle")

\* C22 witness: an invocation has ended after 4 rounds and 3 waits, its last
\* round having polled three keys in two batches.
C22_Witness ==
  /\ schedPc = "idle"
  /\ shape.rounds = 4 /\ shape.waitedMs = 45000
  /\ Len(keys) = 3 /\ polled = Endpoints /\ batchAt = 1 + 2 * batchSize

\* a required field of the body of POST /register is absent
MissingField(body) ==
  body.endpoint = "" \/ body.zulipServerUrl = "" \/ body.zulipEmail = ""
    \/ body.zulipApiKey = ""

\* the documented defaults: mention on, DM on, other off, mute-self on, quiet
\* hours and quiet days off
DocumentedDefault(field) ==
  CASE field = "notifyOnMention"   -> TRUE
    [] field = "notifyOnDM"        -> TRUE
    [] field = "notifyOnOther"     -> FALSE
    [] field = "muteSelfMessages"  -> TRUE
    [] field = "quietHoursEnabled" -> FALSE
    [] field = "quietDaysEnabled"  -> FALSE

DocumentedFields ==
  { "notifyOnMention", "notifyOnDM", "notifyOnOther", "muteSelfMessages",
    "quietHoursEnabled", "quietDaysEnabled" }

\* the record is the one a successful registration with `filters` stores
FreshlyRegistered(rec, filters) ==
  /\ rec.queueId = NoQueue
  /\ rec.lastEventId = -1
  /\ rec.failures = 0
  /\ \A field \in DocumentedFields :
       rec.filters[field] = IF field \in filters.supplied
                              THEN filters.values[field]
                              ELSE DocumentedDefault(field)

\* C23: POST /register answers 400 when a required field is absent and 401
\* when the chat server rejects the credentials, and then leaves the store as
\* it is; when it succeeds, the record it stores has no queue, lastEventId -1,
\* failures 0, and the documented default filters overridden by the fields of
\* the request only.
C23_Register ==
  /\ [](\A body \in RegisterBodies, verify \in VerifyAnswers :
          LET r == handleRegister(store, body, verify)
          IN  /\ MissingField(body) => (r.status = 400 /\ r.store = store)
              /\ (~MissingField(body) /\ verify = "401") =>
                   (r.status = 401 /\ r.store = store)
              /\ (~MissingField(body) /\ verify = "200") =>
                   /\ r.status = 200
                   /\ FreshlyRegistered(r.store[body.endpoint], body.filters)
              /\ r.status # 200 => r.store = store)
  /\ [][(resp' # resp /\ resp'.op = "register" /\ resp'.status # 200) =>
          store' = store]_vars
  /\ [][(resp' # resp /\ resp'.op = "register" /\ resp'.status = 200) =>
          /\ "e1" \in DOMAIN store'
          /\ \E filters \in PartialFilters : FreshlyRegistered(store'["e1"], filters)]_vars

\* C23 witness: a registration that switched `other` on has just succeeded.
C23_Witness ==
  /\ resp = [op |-> "register", status |-> 200]
  /\ "e1" \in DOMAIN store
  /\ FreshlyRegistered(store["e1"], OtherOn)
  /\ store["e1"].filters.notifyOnOther

\* C24: POST /test-push deletes the subscription and answers 410 when the push
\* service answers 404 or 410; whatever else happens (a 2xx, another status, an
\* exception while sending, an unknown endpoint) it leaves the store as it is.
C24_TestPush ==
  /\ [](tp.pc = "push" =>
          \A status \in PushAnswers :
            LET r == testPushOutcome(store, tp.endpoint, status)
            IN  IF status \in {"404", "410"}
                  THEN r.status = 410 /\ r.store = KvDelete(store, tp.endpoint)
                  ELSE r.status # 410 /\ r.store = store)
  /\ [][(tp.pc = "push" /\ tp'.pc = "idle") =>
          IF resp'.status = 410
            THEN store' = KvDelete(store, tp.endpoint)
            ELSE store' = store]_vars
  /\ [][(resp' # resp /\ resp'.op = "test-push" /\ resp'.status \in {400, 404}) =>
          store' = store]_vars

\* C24 witness: the push service said gone to a test push for a stored
\* subscription, which is deleted, and the handler has answered 410.
C24_Witness ==
  /\ resp = [op |-> "test-push", status |-> 410]
  /\ tp.pc = "idle"
  /\ "e1" \notin DOMAIN store

\* the step is the write of the /update request u
UpdateWrites(u) == upd[u].pc = "put" /\ upd'[u].pc = "idle"

\* record `after` is record `before` with the filters of the request merged
\* over its filters, its updatedAt set, and nothing else changed
OnlyFiltersChanged(before, after, filters) ==
  /\ after.filters = Spread(before.filters, filters)
  /\ after.queueId = before.queueId
  /\ after.lastEventId = before.lastEventId
  /\ after.failures = before.failures
  /\ after.keys = before.keys
  /\ after.encryptedCredentials = before.encryptedCredentials
  /\ after.createdAt = before.createdAt

\* /update answers 404 for an endpoint the store does not hold when the
\* handler reads it, and then writes nothing
UnknownGives404 ==
  /\ [][(resp' # resp /\ resp'.op = "update" /\ resp'.status = 404) =>
          store' = store]_vars
  /\ [][\A u \in UpdateRequests :
          (upd[u].pc = "idle" /\ upd'[u].pc = "put") =>
             upd'[u].body.endpoint \in DOMAIN store]_vars
  /\ []("e2" \notin DOMAIN store)

\* C30, as stated: the write of POST /update changes, in the stored record,
\* the filters (fields of the request merged over the stored ones) and
\* updatedAt only; an unknown endpoint is answered 404 and gets no record.
C30_UpdateFrame ==
  /\ [][\A u \in UpdateRequests :
          (UpdateWrites(u) /\ upd[u].body.endpoint \in DOMAIN store) =>
             OnlyFiltersChanged(store[upd[u].body.endpoint],
                                store'[upd[u].body.endpoint], upd[u].body.filters)]_vars
  /\ UnknownGives404

\* C30, amended: the record POST /update writes is the record it read with the
\* filters of the request merged over its filters and updatedAt set; so the
\* stored queueId, lastEventId, failures, keys and credentials are unchanged
\* when nothing wrote the record between the handler's read and its write.
\* An endpoint unknown at the read is answered 404 and gets no record.
C30_UpdateFrameOfReadRecord ==
  /\ [][\A u \in UpdateRequests :
          UpdateWrites(u) =>
             /\ OnlyFiltersChanged(upd[u].sub, store'[upd[u].body.endpoint],
                                   upd[u].body.filters)
             /\ store'[upd[u].body.endpoint].updatedAt = UpdateInstant]_vars
  /\ UnknownGives404

\* C30 witness: an update that switched `other` on has been written for a
\* subscription that holds a queue, with no other writer at work.
C30_Witness ==
  /\ resp = [op |-> "update", status |-> 200]
  /\ store["e1"].queueId # NoQueue
  /\ store["e1"].filters.notifyOnOther
  /\ store["e1"].updatedAt = UpdateInstant
  /\ \E u \in UpdateRequests :
       /\ updHist[u].done /\ updHist[u].supplied = OtherOn
       /\ ~updHist[u].duringPoll /\ ~updHist[u].duringUpdate

\* the /update last served in slot u answered success, and the stored filters
\* do not hold a field it supplied
Lost(u) ==
  /\ updHist[u].done
  /\ "e1" \in DOMAIN store
  /\ \E field \in updHist[u].supplied.supplied :
       store["e1"].filters[field] # updHist[u].supplied.values[field]

\* C25, as stated: an update is lost only if a poll round for the endpoint was
\* between its read and its final write when the update completed.
C25_LostOnlyDuringPoll ==
  \A u \in UpdateRequests : Lost(u) => updHist[u].duringPoll

\* C25, amended: an update is lost only if, when it completed, a poll round
\* for the endpoint was between its read and its final write, or another
\* /update for the endpoint was between its read and its write.
C25_LostOnlyDuringPollOrUpdate ==
  \A u \in UpdateRequests :
    Lost(u) => (updHist[u].duringPoll \/ updHist[u].duringUpdate)

\* C25 witness: an update that switched `other` on answered success while a
\* poll round was in flight and no other update was; the round is over, and
\* the stored filters are the ones from before the update.
C25_Witness ==
  /\ \E u \in UpdateRequests :
       /\ Lost(u)
       /\ updHist[u].supplied = OtherOn
       /\ updHist[u].duringPoll /\ ~updHist[u].duringUpdate
  /\ ~PollInFlight("e1")
  /\ \A u \in UpdateRequests : upd[u].pc = "idle"
  /\ store["e1"].filters = DEFAULT_FILTER_SETTINGS

\* the padding length the first two bytes of a padded plaintext state
LengthField(padded) == padded[1] * 256 + padded[2]

\* C26: whatever the payload, the padded plaintext encryptPayload builds is at
\* most 4078 bytes long, its two-byte length field states the number of padding
\* bytes, which is never negative, and the ciphertext is at most 4078 + 16
\* bytes long.
C26_PaddingBound ==
  pushOut.state = "sent" =>
    /\ Len(pushOut.padded) <= 4078
    /\ pushOut.paddingSize >= 0
    /\ Len(pushOut.padded) = 2 + LengthField(pushOut.padded) + pushIn.len
    /\ LengthField(pushOut.padded) = pushOut.paddingSize
    /\ pushOut.body.byteLength <= 4078 + 16

\* C27: the browser holding the matching private key and auth secret recovers
\* from the request, with the salt and the ephemeral key of its headers,
\* exactly the payload that was encrypted.
C27_RoundTrip ==
  pushRecv.state # "none" =>
    /\ pushRecv.state = "recovered"
    /\ pushRecv.payload = PayloadBytes(pushIn.len)

\* event k of the live queue of e is a message the account's own user sent
SelfSent(e, k) ==
  /\ k < Len(srvEvents[e])
  /\ srvEvents[e][k + 1].type = "message"
  /\ srvEvents[e][k + 1].message[1].sender_id = AccountUserId

\* C28: with mute-self on in the subscription's filters, the poller pushes no
\* message whose sender is the subscription's own chat user.
C28_SelfMessageNeverPushed ==
  \A e \in Endpoints, k \in EventIds :
    (SelfSent(e, k) /\ e \in DOMAIN store /\ store[e].filters.muteSelfMessages) =>
      pushCount[e][k] = 0

\* C29: for every settings value, message, user id and clock value,
\* App.shouldNotify returns true exactly when the shared shouldNotify returns
\* notify = true, quiet days included.
C29_LocalAgreesWithShared ==
  fLocal.state = "returned" =>
    (fLocal.notify <=> shouldNotify(fIn.settings, fIn.msg, fIn.userId, fIn.now).notify)

NonMessage(event) == event.type # "message"

C32_PushErrorCounted ==
  /\ [][\A e \in Endpoints :
          (pc[e] = "loop" /\ rnd'[e].threw /\ ~rnd[e].threw) =>
            /\ sub'[e].failures = sub[e].failures + 1
            /\ sub'[e].lastEventId = Max(sub[e].lastEventId, Head(evs[e]).id)
            /\ evs'[e] = Tail(evs[e])
            /\ pc'[e] = "loop"
            /\ \A o \in Endpoints \ {e} : StoreAt(o)' = StoreAt(o)]_vars
  /\ [](\A e \in Endpoints : pc[e] # "rejected")

C34_UnregisteredStaysAbsent ==
  resp = [op |-> "unregister", status |-> 200] => ~Stored("e1")

LoopsRunning == { l \in Calls : Running(l) }
NoCallInFlight == disc.pc = "idle" /\ \A k \in Calls : conn[k].pc \in {"idle", "done"}

\* C35 (as claimed): at any time at most one poll loop of the App is running -
\* polling, re-registering or in its backoff wait - however connect(),
\* disconnect() and the steps of the loops interleave.
C35_OneLoop == Cardinality(LoopsRunning) <= 1

\* C36 (as claimed): pollLoopActive is set only while a poll loop is running,
\* and when no connect() or disconnect() call is under way and connectionState
\* is 'connected', a poll loop is running.
C36_FlagMeansRunning ==
  /\ pollLoopActive => LoopsRunning # {}
  /\ (NoCallInFlight /\ connectionState = "connected") => LoopsRunning # {}

\* C37 (as claimed): once disconnect() has completed - no connect() call being
\* in flight - and until connect() is called again, connectionState is
\* 'disconnected' and error is null, whatever the loops started before do.
C37_StaysDisconnected ==
  lifeHist.quiet => (connectionState = "disconnected" /\ stateError = NoError)

\* C38: lastNotifiedMsgId never decreases, whatever message events are handled
\* and catch-ups made and in whatever order, and a catch-up notifies only about
\* messages whose id is above the lastNotifiedMsgId it finds.
C38_LastNotifiedMonotone ==
  /\ [][lastNotifiedMsgId' >= lastNotifiedMsgId]_vars
  /\ [][lifeHist'.catchups # lifeHist.catchups =>
          \A id \in lifeHist'.caught : id > lastNotifiedMsgId]_vars

\* C38 witness: after a message event had taken lastNotifiedMsgId up, the
\* catch-up of a second connect() notified about a newer message only, and a
\* loop is polling again.
C38_Witness ==
  /\ lifeHist.catchups = 2
  /\ lifeHist.caught = {MaxId}
  /\ lastNotifiedMsgId = MaxId
  /\ LoopsRunning # {}
====
